---- MODULE Spec2Model ----
(***************************************************************************)
(* Verification model of cryptocurrency-kit: the Merkle tree builder       *)
(* (merkle_tree/mod.rs), the 65-byte recoverable signature type and its    *)
(* sign / verify / recover operations (ethkey/signature.rs), the text      *)
(* forms of Signature, Hash and Secret (signature.rs, crypto.rs,           *)
(* secret.rs), the constructors of Secret and KeyPair and the address      *)
(* (secret.rs, keypair.rs, random.rs), the CryptoHash implementations      *)
(* (encoding/msgpack.rs), the erasure of a Secret on drop, HashStream and  *)
(* the second Merkle builder (crypto.rs, common/mod.rs), the StorageKey    *)
(* encodings (storage/keys.rs) and the index and storage metadata          *)
(* (storage/indexes_metadata.rs).                                          *)
(***************************************************************************)
EXTENDS Integers, Sequences, FiniteSets, TLC

VARIABLES
    \* --- MerkleTree::new_merkle_tree (merkle_tree/mod.rs) ---
    mk_pc,      \* position in new_merkle_tree
    leaves,     \* the argument as the caller passed it
    data,       \* the (mutable) argument after the padding push
    nodes,      \* `nodes`
    new_level,  \* `new_level`
    i,          \* `i`
    j,          \* `j`
    root,       \* MerkleTree.root : Option<Box<MerkleNode>>
    \* --- Signature (ethkey/signature.rs) ---
    sg_pc,            \* position in the call made on the signature
    sg_op,            \* the operation called
    sg_data,          \* the bytes the operation is applied to
    overflow_checks,  \* the build: arithmetic overflow panics (debug) or wraps (release)
    vrs,              \* the array into_electrum returned
    from_vrs,         \* the Signature from_electrum / from_slice returned
    sg_valid,         \* the value is_valid returned
    sg_part,          \* what r(), s() or v() returned: the slice, or the one byte
    \* --- sign / recover / verify_public / KeyPair (ethkey) ---
    ec_pc,      \* position in the caller's sequence of calls
    secret,     \* the 32 bytes of the Secret
    message,    \* the Message (H256)
    keypair,    \* what KeyPair::from_secret(secret) returned (the public key)
    signature,  \* what sign(secret, message) returned
    rc_sig,     \* the signature handed to recover
    recovered,  \* what recover(rc_sig, message) returned
    vp_public,  \* the public key handed to verify_public
    vp_sig,     \* the signature handed to verify_public
    verified,   \* what verify_public(vp_public, vp_sig, message) returned
    low_s,      \* what is_low_s returned for the signature sign returned
    cs_out,     \* what crypto::sign::sign or crypto::sign::verify returned
    \* --- text forms: Display / Debug / FromStr (signature.rs, crypto.rs, secret.rs) ---
    tx_pc,  \* position in the render / parse sequence
    tx_type,  \* the type rendered and parsed: Signature, Hash or Secret
    tx_value,  \* the bytes of the value rendered
    tx_str,  \* the string handed to from_str
    tx_edit,  \* what the caller did to the rendered string
    tx_out,  \* what from_str returned
    tx_depth,  \* frames of From<H256> for Secret on the stack
    \* --- Secret and KeyPair constructors, addresses (secret.rs, keypair.rs, random.rs) ---
    ky_pc,  \* position in the construct / use sequence
    ky_op,  \* the constructor called
    ky_arg,  \* its argument
    ky_out,  \* what it returned: the secret and the public key it holds
    ky_valid,  \* what check_validity returned for the secret
    ky_address,  \* what address() / public_to_address returned
    \* --- CryptoHash implementations (encoding/msgpack.rs) ---
    ch_pc,  \* position in the hash / empty_hash sequence
    ch_value,  \* the value hashed: its type and its content
    rmp_unit,  \* the bytes the linked rmp_serde writes for ()
    ch_out,  \* the Hash CryptoHash::hash returned
    ch_empty,  \* what empty_hash returned for it
    \* --- Secret as owner of a zeroed-on-drop buffer (secret.rs, mem) ---
    mz_heap,  \* the backing buffers ever allocated, by address
    mz_owners,  \* the Secret values ever created: buffer, scalar given, alive or dropped
    \* --- HashStream and the two hash functions (crypto.rs, common/mod.rs) ---
    hs_pc,  \* position in the caller of the two streams
    hs_chunks,  \* the chunks a and b
    hs_streams,  \* the input absorbed by the stream fed a, b and by the stream fed b, a
    hs_out,  \* the Hash each stream returned
    hs_roots,  \* the root data of merkle_tree::MerkleTree and of common::MerkleTree over a, b
    \* --- StorageKey: size / write / read (storage/keys.rs) ---
    sk_pc,  \* position in the caller: start, written, read
    sk_type,  \* the type of the key: i8, i16, i32, i64, Hash or Signature
    sk_x,  \* the key written and read back
    sk_y,  \* a second key of the same type, written next to the first
    sk_buf,  \* the buffers write filled for sk_x and sk_y
    sk_read,  \* what read returned for the buffer of sk_x
    \* --- index and storage metadata (storage/indexes_metadata.rs) ---
    md_pc,  \* ready, or panic once a call has panicked
    md_table,  \* the metadata table of the fork: key -> stored bytes, <<>> where nothing is stored
    md_first,  \* per index name, the arguments of the first set_index_type call made for it
    md_last,  \* the last call made: its name, its arguments and the table before it
    md_out  \* what the last StorageMetadata::read returned

mkVars == <<mk_pc, leaves, data, nodes, new_level, i, j, root>>
sgVars == <<sg_pc, sg_op, sg_data, overflow_checks, vrs, from_vrs, sg_valid, sg_part>>
ecVars == <<ec_pc, secret, message, keypair, signature, rc_sig, recovered,
            vp_public, vp_sig, verified, low_s, cs_out>>
txVars == <<tx_pc, tx_type, tx_value, tx_str, tx_edit, tx_out, tx_depth>>
kyVars == <<ky_pc, ky_op, ky_arg, ky_out, ky_valid, ky_address>>
chVars == <<ch_pc, ch_value, rmp_unit, ch_out, ch_empty>>
mzVars == <<mz_heap, mz_owners>>
hsVars == <<hs_pc, hs_chunks, hs_streams, hs_out, hs_roots>>
skVars == <<sk_pc, sk_type, sk_x, sk_y, sk_buf, sk_read>>
mdVars == <<md_pc, md_table, md_first, md_last, md_out>>
nonMkVars == <<sgVars, ecVars, txVars, kyVars, chVars, mzVars, hsVars, skVars, mdVars>>
nonSgVars == <<mkVars, ecVars, txVars, kyVars, chVars, mzVars, hsVars, skVars, mdVars>>
nonEcVars == <<mkVars, sgVars, txVars, kyVars, chVars, mzVars, hsVars, skVars, mdVars>>
nonTxVars == <<mkVars, sgVars, ecVars, kyVars, chVars, mzVars, hsVars, skVars, mdVars>>
nonKyVars == <<mkVars, sgVars, ecVars, txVars, chVars, mzVars, hsVars, skVars, mdVars>>
nonChVars == <<mkVars, sgVars, ecVars, txVars, kyVars, mzVars, hsVars, skVars, mdVars>>
nonMzVars == <<mkVars, sgVars, ecVars, txVars, kyVars, chVars, hsVars, skVars, mdVars>>
nonHsVars == <<mkVars, sgVars, ecVars, txVars, kyVars, chVars, mzVars, skVars, mdVars>>
nonSkVars == <<mkVars, sgVars, ecVars, txVars, kyVars, chVars, mzVars, hsVars, mdVars>>
nonMdVars == <<mkVars, sgVars, ecVars, txVars, kyVars, chVars, mzVars, hsVars, skVars>>
vars == <<mkVars, sgVars, ecVars, txVars, kyVars, chVars, mzVars, hsVars, skVars, mdVars>>

(***************************************************************************)
(* Bounds of the model.                                                    *)
(***************************************************************************)
MaxLeaves == 6
MaxMessage == 1

(***************************************************************************)
(* Byte strings.  A byte string is a sequence of atoms; an atom is either  *)
(* one concrete byte or one 32-byte digest, kept symbolic: the digest of x *)
(* is the atom that records x, so the hash is a function and is free of    *)
(* collisions.                                                             *)
(***************************************************************************)
None == <<>>
Some(x) == <<x>>

Byte(b) == [kind |-> "byte", val |-> b, of |-> <<>>]

\* common::to_keccak : keccak-256 of the input, an H256
to_keccak(bytes) == << [kind |-> "keccak", val |-> 0, of |-> bytes] >>

Blob(b) == << Byte(b) >>

(***************************************************************************)
(* ethkey::Signature: 65 raw bytes R(32) || S(32) || V(1).  Plain byte     *)
(* arrays are sequences of integers in 0..255.                             *)
(***************************************************************************)
SIGNATURE_SIZE == 65
SIGNATURE_R_SIZE == 32
SIGNATURE_S_SIZE == 32

Zeros(n) == [k \in 1..n |-> 0]

\* the outcome of an expression that may panic
Val(v) == [panic |-> FALSE, val |-> v]
Panicked(dflt) == [panic |-> TRUE, val |-> dflt]

\* arr[k] with Rust's bounds check, k counted from 0
Index(arr, k) ==
    IF k < Len(arr) THEN Val(arr[k + 1]) ELSE Panicked(0)

\* &arr[from..to] with Rust's bounds check
SliceOf(arr, from, to) ==
    IF from <= to /\ to <= Len(arr)
    THEN Val(SubSeq(arr, from + 1, to))
    ELSE Panicked(<<>>)

\* byte-lexicographic order of two equally long byte strings: the order of
\* H256, which is the order of the big-endian integers
LexLess(a, b) ==
    \E k \in 1..Len(a) :
        /\ a[k] < b[k]
        /\ \A m \in 1..(k - 1) : a[m] = b[m]

LexLeq(a, b) == a = b \/ LexLess(a, b)

\* the 32-byte big-endian encoding of a number below 256
BE32(n) == [k \in 1..32 |-> IF k = 32 THEN n ELSE 0]

\* "fffffffffffffffffffffffffffffffebaaedce6af48a03bbfd25e8cd0364141":
\* the literal is_valid compares R and S with
CURVE_ORDER ==
    << 255, 255, 255, 255, 255, 255, 255, 255, 255, 255, 255, 255, 255, 255, 255, 254,
       186, 174, 220, 230, 175, 72, 160, 59, 191, 210, 94, 140, 208, 54, 65, 65 >>

\* Default for Signature
Signature_default == Zeros(SIGNATURE_SIZE)

\* Signature::r
Signature_r(sig) == SliceOf(sig, 0, SIGNATURE_R_SIZE)

\* Signature::s
Signature_s(sig) == SliceOf(sig, SIGNATURE_R_SIZE, SIGNATURE_SIZE + SIGNATURE_S_SIZE)

\* Signature::v
Signature_v(sig) == sig[65]

\* Signature::into_electrum: self.0[64] += 27 on a u8
into_electrum(sig, checks) ==
    LET sum == sig[65] + 27
    IN  IF sum > 255
        THEN IF checks THEN Panicked(sig)
                       ELSE Val([sig EXCEPT ![65] = sum % 256])
        ELSE Val([sig EXCEPT ![65] = sum])

\* a plausible slip: the length test is dropped from the guard
from_electrum_NoLenCheck(d, checks) ==
    LET last == Index(d, 64)
    IN  IF last.panic THEN Panicked(Signature_default)
        ELSE IF last.val < 27 THEN Val(Signature_default)
        ELSE IF Len(d) # SIGNATURE_SIZE THEN Panicked(Signature_default)
        ELSE Val([d EXCEPT ![65] = @ - 27])

\* Signature::from_electrum.  `data.len() != SIGNATURE_SIZE || data[64] < 27`
\* reads data[64] only when the length test is false; copy_from_slice needs
\* equal lengths; sig[64] -= 27 is a u8 subtraction.
from_electrum(d, checks) ==
    IF Len(d) # SIGNATURE_SIZE THEN Val(Signature_default)
    ELSE LET last == Index(d, 64)
         IN  IF last.panic THEN Panicked(Signature_default)
             ELSE IF last.val < 27 THEN Val(Signature_default)
             ELSE IF Len(d) # SIGNATURE_SIZE THEN Panicked(Signature_default)
             ELSE IF d[65] - 27 < 0
                  THEN IF checks THEN Panicked(Signature_default)
                                 ELSE Val([d EXCEPT ![65] = (@ - 27) % 256])
                  ELSE Val([d EXCEPT ![65] = @ - 27])

\* Signature::from_slice
from_slice(d, checks) == from_electrum(d, checks)

\* the literal is_low_s compares S with: half of the curve order
HALF_CURVE_ORDER ==
    << 127, 255, 255, 255, 255, 255, 255, 255, 255, 255, 255, 255, 255, 255, 255, 255,
       93, 87, 110, 115, 87, 164, 80, 29, 223, 233, 47, 70, 104, 27, 32, 160 >>

\* Signature::is_low_s: H256::from_slice(self.s()) <= HALF_CURVE_ORDER
is_low_s(sig) ==
    LET s == Signature_s(sig)
    IN  IF s.panic THEN Panicked(FALSE)
        ELSE Val(LexLeq(s.val, HALF_CURVE_ORDER))

\* Signature::is_valid: a chain of && over v, r and s, evaluated left to
\* right; a conjunct is evaluated only when all before it are true.
is_valid(sig) ==
    IF ~(Signature_v(sig) <= 1) THEN Val(FALSE)
    ELSE LET r == Signature_r(sig)
         IN  IF r.panic THEN Panicked(FALSE)
             ELSE IF ~LexLess(r.val, CURVE_ORDER) THEN Val(FALSE)
             ELSE IF ~LexLeq(BE32(1), r.val) THEN Val(FALSE)
             ELSE LET s == Signature_s(sig)
                  IN  IF s.panic THEN Panicked(FALSE)
                      ELSE IF ~LexLess(s.val, CURVE_ORDER) THEN Val(FALSE)
                      ELSE Val(LexLeq(BE32(1), s.val))

(***************************************************************************)
(* The curve library behind SECP256K1, scaled down: the curve              *)
(* y^2 = x^3 + 7 of secp256k1 over the field of FieldP elements, whose     *)
(* group has the prime order GroupN < FieldP.  Scalars and coordinates     *)
(* keep their 32-byte big-endian encoding.                                 *)
(***************************************************************************)
FieldP == 43
GroupN == 31
CurveB == 7

Infinity == [inf |-> TRUE, x |-> 0, y |-> 0]
Point(px, py) == [inf |-> FALSE, x |-> px, y |-> py]
Generator == Point(2, 12)

ModInv(a, m) == CHOOSE b \in 1..(m - 1) : (a * b) % m = 1

OnCurve(px, py) == (py * py) % FieldP = (px * px * px + CurveB) % FieldP

ec_add(P, Q) ==
    IF P.inf THEN Q
    ELSE IF Q.inf THEN P
    ELSE IF P.x = Q.x /\ (P.y + Q.y) % FieldP = 0 THEN Infinity
    ELSE LET lam == IF P.x = Q.x
                    THEN (3 * P.x * P.x * ModInv((2 * P.y) % FieldP, FieldP)) % FieldP
                    ELSE ((Q.y - P.y + FieldP)
                            * ModInv((Q.x - P.x + FieldP) % FieldP, FieldP)) % FieldP
             x3 == (lam * lam + 2 * FieldP - P.x - Q.x) % FieldP
             y3 == (lam * (P.x - x3 + FieldP) + FieldP - P.y) % FieldP
         IN  Point(x3, y3)

\* the multiples of a point, by repeated addition
Multiples(P) ==
    LET f[k \in 0..(GroupN - 1)] == IF k = 0 THEN Infinity ELSE ec_add(f[k - 1], P)
    IN  f

GeneratorMultiples == Multiples(Generator)

ec_mul(k, P) ==
    IF P = Generator THEN GeneratorMultiples[k % GroupN]
    ELSE Multiples(P)[k % GroupN]

\* a 32-byte big-endian string as a scalar below the group order, if it is one
ScalarOverflow(bytes) == ~LexLess(bytes, BE32(GroupN))
ScalarOf(bytes) == bytes[32]

\* a 32-byte big-endian string reduced modulo the group order
ReduceModN(bytes) ==
    LET f[k \in 0..Len(bytes)] ==
            IF k = 0 THEN 0 ELSE (f[k - 1] * 256 + bytes[k]) % GroupN
    IN  f[Len(bytes)]

\* a 32-byte big-endian string as a field element, if it is one
FieldOverflow(bytes) == ~LexLess(bytes, BE32(FieldP))

IsHigh(sc) == sc > GroupN \div 2

\* SecretKey::from_slice: 32 bytes, not zero, below the group order
SecretKey_from_slice(bytes) ==
    IF Len(bytes) # 32 \/ ScalarOverflow(bytes) \/ ScalarOf(bytes) = 0
    THEN [ok |-> FALSE, err |-> "InvalidSecretKey", d |-> 0]
    ELSE [ok |-> TRUE, err |-> "", d |-> ScalarOf(bytes)]

\* SecpMessage::from_slice: exactly 32 bytes
SecpMessage_from_slice(bytes) ==
    IF Len(bytes) # 32
    THEN [ok |-> FALSE, err |-> "InvalidMessage", z |-> 0]
    ELSE [ok |-> TRUE, err |-> "", z |-> ReduceModN(bytes)]

\* Secp256k1::sign_recoverable with the nonce k: ok is FALSE when the nonce
\* gives r = 0 or s = 0 and the library moves on to the next nonce
sign_recoverable(z, d, k) ==
    LET R == ec_mul(k, Generator)
        r == R.x % GroupN
        s == (ModInv(k, GroupN) * ((z + r * d) % GroupN)) % GroupN
        recid == (IF R.x >= GroupN THEN 2 ELSE 0) + (R.y % 2)
        flip == [c \in 0..3 |-> IF c % 2 = 0 THEN c + 1 ELSE c - 1]
    IN  IF r = 0 \/ s = 0
        THEN [ok |-> FALSE, r |-> 0, s |-> 0, recid |-> 0]
        ELSE IF IsHigh(s)
             THEN [ok |-> TRUE, r |-> r, s |-> GroupN - s, recid |-> flip[recid]]
             ELSE [ok |-> TRUE, r |-> r, s |-> s, recid |-> recid]

\* RecoveryId::from_i32
RecoveryId_from_i32(v) ==
    IF v \in 0..3 THEN [ok |-> TRUE, err |-> "", recid |-> v]
    ELSE [ok |-> FALSE, err |-> "InvalidRecoveryId", recid |-> 0]

\* RecoverableSignature::from_compact: 64 bytes, r and s below the group order
from_compact(bytes, recid) ==
    IF Len(bytes) # 64
          \/ ScalarOverflow(SubSeq(bytes, 1, 32)) \/ ScalarOverflow(SubSeq(bytes, 33, 64))
    THEN [ok |-> FALSE, err |-> "InvalidSignature", r |-> 0, s |-> 0, recid |-> 0]
    ELSE [ok |-> TRUE, err |-> "", r |-> ScalarOf(SubSeq(bytes, 1, 32)),
          s |-> ScalarOf(SubSeq(bytes, 33, 64)), recid |-> recid]

\* the curve point with abscissa px and the given parity of y, if there is one
HasPointAt(px) == \E py \in 0..(FieldP - 1) : OnCurve(px, py)
PointAt(px, odd) ==
    Point(px, CHOOSE py \in 0..(FieldP - 1) : OnCurve(px, py) /\ py % 2 = odd)

\* Secp256k1::recover
secp_recover(z, rsig) ==
    LET fx == rsig.r + (IF rsig.recid >= 2 THEN GroupN ELSE 0)
    IN  IF rsig.r = 0 \/ rsig.s = 0 \/ fx >= FieldP \/ ~HasPointAt(fx)
        THEN [ok |-> FALSE, err |-> "InvalidSignature", Q |-> Infinity]
        ELSE LET X == PointAt(fx, rsig.recid % 2)
                 rn == ModInv(rsig.r, GroupN)
                 u1 == (GroupN - ((rn * z) % GroupN)) % GroupN
                 u2 == (rn * rsig.s) % GroupN
                 Q == ec_add(ec_mul(u1, Generator), ec_mul(u2, X))
             IN  IF Q.inf
                 THEN [ok |-> FALSE, err |-> "InvalidSignature", Q |-> Infinity]
                 ELSE [ok |-> TRUE, err |-> "", Q |-> Q]

\* Secp256k1::verify on the standard (r, s) signature: high s is refused
secp_verify(z, sig, Q) ==
    IF IsHigh(sig.s) \/ sig.r = 0 \/ sig.s = 0
    THEN [ok |-> FALSE, err |-> "IncorrectSignature"]
    ELSE LET sn == ModInv(sig.s, GroupN)
             u1 == (sn * z) % GroupN
             u2 == (sn * sig.r) % GroupN
             P == ec_add(ec_mul(u1, Generator), ec_mul(u2, Q))
         IN  IF ~P.inf /\ P.x % GroupN = sig.r
             THEN [ok |-> TRUE, err |-> ""]
             ELSE [ok |-> FALSE, err |-> "IncorrectSignature"]

\* PublicKey::serialize_vec(context, false): 0x04 || X || Y
serialize_vec(Q) == <<4>> \o BE32(Q.x) \o BE32(Q.y)

\* PublicKey::from_slice on 65 bytes: prefix 4, coordinates in the field, on the curve
PublicKey_from_slice(bytes) ==
    LET bx == SubSeq(bytes, 2, 33)
        by == SubSeq(bytes, 34, 65)
    IN  IF Len(bytes) # 65 \/ bytes[1] # 4 \/ FieldOverflow(bx) \/ FieldOverflow(by)
        THEN [ok |-> FALSE, err |-> "InvalidPublicKey", Q |-> Infinity]
        ELSE IF ~OnCurve(bx[32], by[32])
             THEN [ok |-> FALSE, err |-> "InvalidPublicKey", Q |-> Infinity]
             ELSE [ok |-> TRUE, err |-> "", Q |-> Point(bx[32], by[32])]

(***************************************************************************)
(* ethkey: Result values, KeyPair::from_secret, sign, recover and          *)
(* verify_public.                                                          *)
(***************************************************************************)
OkBytes(v) == [tag |-> "Ok", val |-> v, flag |-> FALSE, err |-> ""]
OkBool(b) == [tag |-> "Ok", val |-> <<>>, flag |-> b, err |-> ""]
Err(e) == [tag |-> "Err", val |-> <<>>, flag |-> FALSE, err |-> e]
NoResult == [tag |-> "none", val |-> <<>>, flag |-> FALSE, err |-> ""]

\* KeyPair::from_secret: the public key of the pair
KeyPair_from_secret(sec) ==
    LET s == SecretKey_from_slice(sec)
    IN  IF ~s.ok THEN Err(s.err)
        ELSE LET serialized == serialize_vec(ec_mul(s.d, Generator))
             IN  OkBytes(SubSeq(serialized, 2, 65))

\* a plausible slip: the recovery id is not stored in the last byte
sign_NoRecoveryId(sec, msg, k) ==
    LET s == SecretKey_from_slice(sec)
        m == SecpMessage_from_slice(msg)
    IN  IF ~s.ok THEN Err(s.err)
        ELSE IF ~m.ok THEN Err(m.err)
        ELSE LET rs == sign_recoverable(m.z, s.d, k)
             IN  OkBytes(BE32(rs.r) \o BE32(rs.s) \o <<0>>)

\* sign, with the nonce k the library settles on
sign(sec, msg, k) ==
    LET s == SecretKey_from_slice(sec)
        m == SecpMessage_from_slice(msg)
    IN  IF ~s.ok THEN Err(s.err)
        ELSE IF ~m.ok THEN Err(m.err)
        ELSE LET rs == sign_recoverable(m.z, s.d, k)
                 cdata == BE32(rs.r) \o BE32(rs.s)
                 signature_v_offset == SIGNATURE_R_SIZE + SIGNATURE_S_SIZE
                 data_arr ==
                    [n \in 1..SIGNATURE_SIZE |->
                        IF n <= signature_v_offset THEN cdata[n]
                        ELSE IF n = signature_v_offset + 1 THEN rs.recid
                        ELSE 0]
             IN  OkBytes(data_arr)

\* recover
recover(sig, msg) ==
    LET v_off == SIGNATURE_R_SIZE + SIGNATURE_S_SIZE
        recid == RecoveryId_from_i32(sig[v_off + 1])
    IN  IF ~recid.ok THEN Err(recid.err)
        ELSE LET rsig == from_compact(SubSeq(sig, 1, v_off), recid.recid)
                 m == SecpMessage_from_slice(msg)
             IN  IF ~rsig.ok THEN Err(rsig.err)
                 ELSE IF ~m.ok THEN Err(m.err)
                 ELSE LET pubkey == secp_recover(m.z, rsig)
                      IN  IF ~pubkey.ok THEN Err(pubkey.err)
                          ELSE OkBytes(SubSeq(serialize_vec(pubkey.Q), 2, 65))

\* a plausible slip: the arm for IncorrectSignature is missing
verify_public_NoFalseArm(pub, sig, msg) ==
    LET v_off == SIGNATURE_S_SIZE + SIGNATURE_R_SIZE
        recid == RecoveryId_from_i32(sig[v_off + 1])
    IN  IF ~recid.ok THEN Err(recid.err)
        ELSE LET rsig == from_compact(SubSeq(sig, 1, v_off), recid.recid)
                 publ == PublicKey_from_slice(<<4>> \o pub)
                 m == SecpMessage_from_slice(msg)
             IN  IF ~rsig.ok THEN Err(rsig.err)
                 ELSE IF ~publ.ok THEN Err(publ.err)
                 ELSE IF ~m.ok THEN Err(m.err)
                 ELSE LET res == secp_verify(m.z, rsig, publ.Q)
                      IN  IF res.ok THEN OkBool(TRUE) ELSE Err(res.err)

\* verify_public
verify_public(pub, sig, msg) ==
    LET v_off == SIGNATURE_S_SIZE + SIGNATURE_R_SIZE
        recid == RecoveryId_from_i32(sig[v_off + 1])
    IN  IF ~recid.ok THEN Err(recid.err)
        ELSE LET rsig == from_compact(SubSeq(sig, 1, v_off), recid.recid)
                 pdata == [n \in 1..SIGNATURE_SIZE |-> IF n = 1 THEN 4 ELSE pub[n - 1]]
                 publ == PublicKey_from_slice(pdata)
                 m == SecpMessage_from_slice(msg)
             IN  IF ~rsig.ok THEN Err(rsig.err)
                 ELSE IF ~publ.ok THEN Err(publ.err)
                 ELSE IF ~m.ok THEN Err(m.err)
                 ELSE LET res == secp_verify(m.z, rsig, publ.Q)
                      IN  IF res.ok THEN OkBool(TRUE)
                          ELSE IF res.err = "IncorrectSignature" THEN OkBool(FALSE)
                          ELSE Err(res.err)

\* ethkey::crypto::sign::sign, with the nonce k the library settles on:
\* the secp256k1 Signature as R || S; both unwraps panic on an Err
crypto_sign_sign(z, sec, k) ==
    LET s == SecretKey_from_slice(sec)
    IN  IF ~s.ok THEN Panicked(<<>>)
        ELSE LET rs == sign_recoverable(z, s.d, k)
             IN  Val(BE32(rs.r) \o BE32(rs.s))

\* ethkey::crypto::sign::verify on a secp256k1 Signature (r, s): both
\* unwraps panic on an Err
crypto_sign_verify(pub, sig, plain_text_hash) ==
    LET pdata == [n \in 1..65 |-> IF n = 1 THEN 4 ELSE pub[n - 1]]
        publ == PublicKey_from_slice(pdata)
        m == SecpMessage_from_slice(plain_text_hash)
    IN  IF ~publ.ok THEN Panicked(FALSE)
        ELSE IF ~m.ok THEN Panicked(FALSE)
        ELSE Val(secp_verify(m.z, sig, publ.Q).ok)

(***************************************************************************)
(* Inputs of the Signature operations.                                     *)
(***************************************************************************)
\* CURVE_ORDER - 1
OrderMinusOne == [CURVE_ORDER EXCEPT ![32] = 64]

Scalars32 == { BE32(0), BE32(1), OrderMinusOne, CURVE_ORDER, [k \in 1..32 |-> 255] }

RecoveryBytes == { 0, 1, 2, 3, 4, 26, 27, 28, 228, 229, 255 }

Signatures == { r \o s \o <<v>> : r \in Scalars32, s \in Scalars32, v \in RecoveryBytes }

\* byte slices of every length class: 0, 64, 65 and 66 bytes
Slices ==
    Signatures
    \cup { SubSeq(sig, 1, 64) : sig \in Signatures }
    \cup { Append(sig, 27) : sig \in Signatures }
    \cup { <<>> }

SigIdle ==
    /\ sg_pc = "idle"
    /\ sg_op = "none"
    /\ sg_data = <<>>
    /\ overflow_checks = FALSE
    /\ vrs = <<>>
    /\ from_vrs = <<>>
    /\ sg_valid = FALSE
    /\ sg_part = <<>>

EcIdle ==
    /\ ec_pc = "idle"
    /\ secret = <<>>
    /\ message = <<>>
    /\ keypair = NoResult
    /\ signature = NoResult
    /\ rc_sig = <<>>
    /\ recovered = NoResult
    /\ vp_public = <<>>
    /\ vp_sig = <<>>
    /\ verified = NoResult
    /\ low_s = NoResult
    /\ cs_out = NoResult

TxIdle ==
    /\ tx_pc = "idle"
    /\ tx_type = "none"
    /\ tx_value = <<>>
    /\ tx_str = <<>>
    /\ tx_edit = "none"
    /\ tx_out = NoResult
    /\ tx_depth = 0

\* what a constructor returned: a tag, the secret and the public key held
Made(tag, sec, pub, err) == [tag |-> tag, secret |-> sec, public |-> pub, err |-> err]
NoKey == Made("none", <<>>, <<>>, "")

KyIdle ==
    /\ ky_pc = "idle"
    /\ ky_op = "none"
    /\ ky_arg = <<>>
    /\ ky_out = NoKey
    /\ ky_valid = NoResult
    /\ ky_address = <<>>

ChIdle ==
    /\ ch_pc = "idle"
    /\ ch_value = [type |-> "none", val |-> <<>>]
    /\ rmp_unit = <<>>
    /\ ch_out = <<>>
    /\ ch_empty = FALSE

MzIdle ==
    /\ mz_heap = <<>>
    /\ mz_owners = <<>>

HsIdle ==
    /\ hs_pc = "idle"
    /\ hs_chunks = <<>>
    /\ hs_streams = <<>>
    /\ hs_out = <<>>
    /\ hs_roots = <<>>

SkIdle ==
    /\ sk_pc = "idle"
    /\ sk_type = "none"
    /\ sk_x = <<>>
    /\ sk_y = <<>>
    /\ sk_buf = <<>>
    /\ sk_read = <<>>

MdIdle ==
    /\ md_pc = "idle"
    /\ md_table = <<>>
    /\ md_first = <<>>
    /\ md_last = <<>>
    /\ md_out = <<>>

(***************************************************************************)
(* merkle_tree::MerkleNode                                                 *)
(***************************************************************************)
MerkleNode_default == [data |-> <<>>, left |-> None, right |-> None]

\* MerkleNode::new
MerkleNode_new(bytes) == [MerkleNode_default EXCEPT !.data = to_keccak(bytes)]

\* MerkleNode::new_merkle_node : hash_data = left.data ++ right.data
new_merkle_node(left, right) ==
    LET hash_data == left.data \o right.data
    IN  [MerkleNode_default EXCEPT !.data = to_keccak(hash_data)]

\* a plausible slip: the padding push is forgotten
PadData_NoPush(d) == d

\* new_merkle_tree, lines 21-33: an odd-length argument gets a copy of its
\* last element pushed.  data.last().unwrap() is only evaluated for an odd,
\* hence non-empty, list.
PadData(d) ==
    IF Len(d) % 2 # 0 THEN Append(d, d[Len(d)]) ELSE d

\* new_merkle_tree, lines 35-39
LeafNodes(d) == [k \in 1..Len(d) |-> MerkleNode_new(d[k])]

\* a plausible slip: the loop bound runs one pair too far
WhileCond_OffByOne(ii, ns) == ii <= Len(ns) \div 2

\* new_merkle_tree, line 44: i < nodes.len() / 2
WhileCond(ii, ns) == ii < Len(ns) \div 2

\* new_merkle_tree, lines 44-49 as a whole: the level built from `ns`
PairLevel(ns) ==
    [k \in 1..(Len(ns) \div 2) |-> new_merkle_node(ns[2 * k - 1], ns[2 * k])]

\* new_merkle_tree, lines 41-54 as a whole, for a list the loop leaves
RECURSIVE LevelLoop(_)
LevelLoop(ns) ==
    LET nl == PairLevel(ns)
    IN  IF Len(nl) = 1 THEN nl ELSE LevelLoop(nl)

\* new_merkle_tree as a function of a non-empty argument
new_merkle_tree(d) ==
    [root |-> Some(LevelLoop(LeafNodes(PadData(d)))[1])]

(***************************************************************************)
(* Inputs of new_merkle_tree: every list of up to MaxLeaves one-byte blobs *)
(* that either has pairwise distinct elements or draws from two blobs.     *)
(***************************************************************************)
Distinct(s) == \A p, q \in 1..Len(s) : p # q => s[p] # s[q]

LeafIds == 1..MaxLeaves

LeafLists ==
    { [k \in 1..Len(s) |-> Blob(s[k])] :
        s \in { t \in UNION { [1..n -> LeafIds] : n \in 0..MaxLeaves } :
                    Distinct(t) \/ (\A k \in 1..Len(t) : t[k] <= 2) } }

(***************************************************************************)
(* new_merkle_tree, statement by statement.                                *)
(***************************************************************************)
MerkleStart(ls) ==
    /\ leaves = ls
    /\ data = <<>>
    /\ nodes = <<>>
    /\ new_level = <<>>
    /\ i = 0
    /\ j = 0
    /\ root = None

InitMerkle ==
    /\ mk_pc = "start"
    /\ \E ls \in LeafLists : MerkleStart(ls)
    /\ SigIdle
    /\ EcIdle
    /\ TxIdle
    /\ KyIdle
    /\ ChIdle
    /\ MzIdle
    /\ HsIdle
    /\ SkIdle
    /\ MdIdle

\* lines 21-39
MkPad ==
    /\ mk_pc = "start"
    /\ data' = PadData(leaves)
    /\ nodes' = LeafNodes(data')
    /\ mk_pc' = "loop"
    /\ UNCHANGED <<leaves, new_level, i, j, root>>
    /\ UNCHANGED nonMkVars

\* lines 42-43
MkLoopHead ==
    /\ mk_pc = "loop"
    /\ new_level' = <<>>
    /\ i' = 0
    /\ j' = 0
    /\ mk_pc' = "while"
    /\ UNCHANGED <<leaves, data, nodes, root>>
    /\ UNCHANGED nonMkVars

\* lines 44-48: one iteration of the inner loop; indexing past the end of
\* `nodes` panics
MkWhileStep ==
    /\ mk_pc = "while"
    /\ WhileCond(i, nodes)
    /\ IF j + 1 < Len(nodes)
       THEN /\ new_level' = Append(new_level, new_merkle_node(nodes[j + 1], nodes[j + 2]))
            /\ j' = j + 2
            /\ i' = i + 1
            /\ mk_pc' = "while"
       ELSE /\ mk_pc' = "panic"
            /\ UNCHANGED <<new_level, i, j>>
    /\ UNCHANGED <<leaves, data, nodes, root>>
    /\ UNCHANGED nonMkVars

\* lines 50-53
MkLevelEnd ==
    /\ mk_pc = "while"
    /\ ~WhileCond(i, nodes)
    /\ nodes' = new_level
    /\ mk_pc' = IF Len(new_level) = 1 THEN "ret" ELSE "loop"
    /\ UNCHANGED <<leaves, data, new_level, i, j, root>>
    /\ UNCHANGED nonMkVars

\* line 55: nodes.pop().unwrap()
MkReturn ==
    /\ mk_pc = "ret"
    /\ IF nodes = <<>>
       THEN /\ mk_pc' = "panic"
            /\ UNCHANGED <<nodes, root>>
       ELSE /\ root' = Some(nodes[Len(nodes)])
            /\ nodes' = SubSeq(nodes, 1, Len(nodes) - 1)
            /\ mk_pc' = "done"
    /\ UNCHANGED <<leaves, data, new_level, i, j>>
    /\ UNCHANGED nonMkVars

NextMerkle == MkPad \/ MkLoopHead \/ MkWhileStep \/ MkLevelEnd \/ MkReturn

SpecMerkle == InitMerkle /\ [][NextMerkle]_vars

\* the call is a sequential computation: it keeps running while it can
SpecMerkleFair == SpecMerkle /\ WF_vars(NextMerkle)

(***************************************************************************)
(* Calls on a Signature.  The caller picks the bytes and the build.        *)
(***************************************************************************)
MerkleIdle ==
    /\ mk_pc = "idle"
    /\ MerkleStart(<<>>)

InitSig ==
    /\ sg_pc = "start"
    /\ sg_op = "none"
    /\ sg_data \in Slices
    /\ overflow_checks \in BOOLEAN
    /\ vrs = <<>>
    /\ from_vrs = <<>>
    /\ sg_valid = FALSE
    /\ sg_part = <<>>
    /\ MerkleIdle
    /\ EcIdle
    /\ TxIdle
    /\ KyIdle
    /\ ChIdle
    /\ MzIdle
    /\ HsIdle
    /\ SkIdle
    /\ MdIdle

\* signature.clone().into_electrum()
SgIntoElectrum ==
    /\ sg_pc = "start"
    /\ Len(sg_data) = SIGNATURE_SIZE
    /\ sg_op' = "round_trip"
    /\ LET out == into_electrum(sg_data, overflow_checks)
       IN  /\ sg_pc' = IF out.panic THEN "panic" ELSE "electrum"
           /\ vrs' = IF out.panic THEN vrs ELSE out.val
    /\ UNCHANGED <<sg_data, overflow_checks, from_vrs, sg_valid, sg_part>>
    /\ UNCHANGED nonSgVars

\* Signature::from_electrum(&vrs)
SgFromElectrum ==
    /\ sg_pc = "electrum"
    /\ LET out == from_electrum(vrs, overflow_checks)
       IN  /\ sg_pc' = IF out.panic THEN "panic" ELSE "done"
           /\ from_vrs' = IF out.panic THEN from_vrs ELSE out.val
    /\ UNCHANGED <<sg_op, sg_data, overflow_checks, vrs, sg_valid, sg_part>>
    /\ UNCHANGED nonSgVars

\* Signature::from_slice(data) on any slice
SgFromSlice ==
    /\ sg_pc = "start"
    /\ sg_op' = "from_slice"
    /\ LET out == from_slice(sg_data, overflow_checks)
       IN  /\ sg_pc' = IF out.panic THEN "panic" ELSE "done"
           /\ from_vrs' = IF out.panic THEN from_vrs ELSE out.val
    /\ UNCHANGED <<sg_data, overflow_checks, vrs, sg_valid, sg_part>>
    /\ UNCHANGED nonSgVars

\* signature.is_valid()
SgIsValid ==
    /\ sg_pc = "start"
    /\ Len(sg_data) = SIGNATURE_SIZE
    /\ sg_op' = "is_valid"
    /\ LET out == is_valid(sg_data)
       IN  /\ sg_pc' = IF out.panic THEN "panic" ELSE "done"
           /\ sg_valid' = IF out.panic THEN sg_valid ELSE out.val
    /\ UNCHANGED <<sg_data, overflow_checks, vrs, from_vrs, sg_part>>
    /\ UNCHANGED nonSgVars

\* signature.r()
SgR ==
    /\ sg_pc = "start"
    /\ Len(sg_data) = SIGNATURE_SIZE
    /\ sg_op' = "r"
    /\ LET out == Signature_r(sg_data)
       IN  /\ sg_pc' = IF out.panic THEN "panic" ELSE "done"
           /\ sg_part' = IF out.panic THEN sg_part ELSE out.val
    /\ UNCHANGED <<sg_data, overflow_checks, vrs, from_vrs, sg_valid>>
    /\ UNCHANGED nonSgVars

\* signature.s()
SgS ==
    /\ sg_pc = "start"
    /\ Len(sg_data) = SIGNATURE_SIZE
    /\ sg_op' = "s"
    /\ LET out == Signature_s(sg_data)
       IN  /\ sg_pc' = IF out.panic THEN "panic" ELSE "done"
           /\ sg_part' = IF out.panic THEN sg_part ELSE out.val
    /\ UNCHANGED <<sg_data, overflow_checks, vrs, from_vrs, sg_valid>>
    /\ UNCHANGED nonSgVars

\* signature.v()
SgV ==
    /\ sg_pc = "start"
    /\ Len(sg_data) = SIGNATURE_SIZE
    /\ sg_op' = "v"
    /\ sg_part' = << Signature_v(sg_data) >>
    /\ sg_pc' = "done"
    /\ UNCHANGED <<sg_data, overflow_checks, vrs, from_vrs, sg_valid>>
    /\ UNCHANGED nonSgVars

NextSig ==
    \/ SgIntoElectrum \/ SgFromElectrum \/ SgFromSlice \/ SgIsValid
    \/ SgR \/ SgS \/ SgV

SpecSig == InitSig /\ [][NextSig]_vars

(***************************************************************************)
(* Properties of the Signature operations.                                 *)
(***************************************************************************)
\* C6: for every 65-byte signature, whatever its recovery byte,
\* from_electrum(into_electrum(sig)) = sig: nothing overflows and the
\* default signature is never substituted.
C6_ElectrumRoundTrip ==
    sg_op = "round_trip" =>
        /\ sg_pc # "panic"
        /\ sg_pc = "done" => from_vrs = sg_data

\* what the decoder is to return for the bytes d
DecodedElectrum(d) ==
    IF Len(d) # 65 \/ d[65] < 27
    THEN Zeros(65)
    ELSE [k \in 1..65 |-> IF k = 65 THEN d[65] - 27 ELSE d[k]]

\* C7: from_electrum and from_slice never panic; a slice whose length is
\* not 65 or whose byte 64 is below 27 gives the all-zero signature, any
\* other slice gives the same bytes with the last one decreased by 27.
C7_MalformedElectrumDecodesToDefault ==
    /\ sg_op = "from_slice" =>
          sg_pc = "done" /\ from_vrs = DecodedElectrum(sg_data)
    /\ (sg_op = "round_trip" /\ sg_pc # "electrum" /\ vrs # <<>>) =>
          sg_pc = "done" /\ from_vrs = DecodedElectrum(vrs)

C7_Witness ==
    /\ sg_op = "from_slice"
    /\ sg_pc = "done"
    /\ Len(sg_data) = 64
    /\ from_vrs = Zeros(65)

\* what is_valid is to return for the signature sig
InRange(x) == LexLeq(BE32(1), x) /\ LexLess(x, CURVE_ORDER)

ValidSignature(sig) ==
    /\ sig[65] \in {0, 1}
    /\ InRange(SubSeq(sig, 1, 32))
    /\ InRange(SubSeq(sig, 33, 64))

\* C8: is_valid returns a boolean for every 65-byte signature, true exactly
\* when the recovery id is 0 or 1 and 0 < R < order and 0 < S < order; it
\* does not panic.
C8_IsValidDecides ==
    sg_op = "is_valid" =>
        /\ sg_pc = "done"
        /\ sg_valid = ValidSignature(sg_data)

(***************************************************************************)
(* A caller of the key and signature functions: it derives the key pair of *)
(* a secret, signs a message, and hands signatures and public keys, as     *)
(* produced or altered, to recover and verify_public.                      *)
(***************************************************************************)
Secrets == { BE32(d) : d \in 0..(GroupN + 1) } \cup { [k \in 1..32 |-> 255] }

Messages == { BE32(m) : m \in 0..MaxMessage } \cup { [k \in 1..32 |-> 255] }

Nonces == 1..(GroupN - 1)

SetR(sig, r32) == r32 \o SubSeq(sig, 33, 65)
SetS(sig, s32) == SubSeq(sig, 1, 32) \o s32 \o << sig[65] >>

\* the signatures a caller may hand over: the one sign returned and
\* alterations of it
SigArgs(res) ==
    IF res.tag # "Ok" THEN { Signature_default }
    ELSE LET sig == res.val
         IN  { sig, Signature_default }
             \cup { [sig EXCEPT ![65] = v] : v \in {0, 1, 2, 3, 4, 27} }
             \cup { SetR(sig, r32) : r32 \in { BE32(0), BE32(GroupN),
                                              BE32((sig[32] % (GroupN - 1)) + 1) } }
             \cup { SetS(sig, s32) : s32 \in { BE32(0), BE32(GroupN - sig[64]),
                                              [k \in 1..32 |-> 255] } }

\* the public keys a caller may hand over: the one of the key pair,
\* other points, and byte strings that are no point
PublicArgs(res) ==
    { Zeros(64), SubSeq(serialize_vec(Generator), 2, 65) }
    \cup IF res.tag # "Ok" THEN {}
         ELSE LET pub == res.val
              IN  { pub,
                    [pub EXCEPT ![64] = FieldP - @],
                    [pub EXCEPT ![64] = (@ + 1) % FieldP],
                    [pub EXCEPT ![32] = FieldP],
                    [pub EXCEPT ![1] = 1] }

InitEc ==
    /\ ec_pc = "start"
    /\ secret \in Secrets
    /\ message \in Messages
    /\ keypair = NoResult
    /\ signature = NoResult
    /\ rc_sig = <<>>
    /\ recovered = NoResult
    /\ vp_public = <<>>
    /\ vp_sig = <<>>
    /\ verified = NoResult
    /\ low_s = NoResult
    /\ cs_out = NoResult
    /\ MerkleIdle
    /\ SigIdle
    /\ TxIdle
    /\ KyIdle
    /\ ChIdle
    /\ MzIdle
    /\ HsIdle
    /\ SkIdle
    /\ MdIdle

\* KeyPair::from_secret(secret)
EcFromSecret ==
    /\ ec_pc = "start"
    /\ keypair' = KeyPair_from_secret(secret)
    /\ ec_pc' = "keyed"
    /\ UNCHANGED <<secret, message, signature, rc_sig, recovered, vp_public, vp_sig, verified, low_s, cs_out>>
    /\ UNCHANGED nonEcVars

\* sign(&secret, &message); the library settles on a nonce that gives
\* r # 0 and s # 0
EcSign ==
    /\ ec_pc = "keyed"
    /\ \E k \in Nonces :
          /\ LET s == SecretKey_from_slice(secret)
             IN  IF s.ok
                 THEN sign_recoverable(ReduceModN(message), s.d, k).ok
                 ELSE k = 1
          /\ signature' = sign(secret, message, k)
    /\ ec_pc' = "signed"
    /\ UNCHANGED <<secret, message, keypair, rc_sig, recovered, vp_public, vp_sig, verified, low_s, cs_out>>
    /\ UNCHANGED nonEcVars

\* recover(&sig, &message)
EcRecover ==
    /\ ec_pc = "signed"
    /\ \E sig \in SigArgs(signature) :
          /\ rc_sig' = sig
          /\ recovered' = recover(sig, message)
    /\ ec_pc' = "recovered"
    /\ UNCHANGED <<secret, message, keypair, signature, vp_public, vp_sig, verified, low_s, cs_out>>
    /\ UNCHANGED nonEcVars

\* verify_public(&public, &sig, &message)
EcVerifyPublic ==
    /\ ec_pc = "signed"
    /\ \E pub \in PublicArgs(keypair), sig \in SigArgs(signature) :
          /\ vp_public' = pub
          /\ vp_sig' = sig
          /\ verified' = verify_public(pub, sig, message)
    /\ ec_pc' = "verified"
    /\ UNCHANGED <<secret, message, keypair, signature, rc_sig, recovered, low_s, cs_out>>
    /\ UNCHANGED nonEcVars

\* signature.is_low_s() on the signature sign returned; the slice taken by
\* Signature::s panics before the comparison
EcIsLowS ==
    /\ ec_pc = "signed"
    /\ signature.tag = "Ok"
    /\ LET out == is_low_s(signature.val)
       IN  /\ low_s' = IF out.panic THEN NoResult ELSE OkBool(out.val)
           /\ ec_pc' = IF out.panic THEN "panic" ELSE "low_s"
    /\ UNCHANGED <<secret, message, keypair, signature, rc_sig, recovered,
                   vp_public, vp_sig, verified, cs_out>>
    /\ UNCHANGED nonEcVars

\* crypto::sign::sign(&message, &secret)
EcCryptoSign ==
    /\ ec_pc = "keyed"
    /\ \E k \in Nonces :
          /\ LET s == SecretKey_from_slice(secret)
             IN  IF s.ok
                 THEN sign_recoverable(ReduceModN(message), s.d, k).ok
                 ELSE k = 1
          /\ LET out == crypto_sign_sign(ReduceModN(message), secret, k)
             IN  /\ cs_out' = IF out.panic THEN NoResult ELSE OkBytes(out.val)
                 /\ ec_pc' = IF out.panic THEN "unwrap panic" ELSE "crypto signed"
    /\ UNCHANGED <<secret, message, keypair, signature, rc_sig, recovered,
                   vp_public, vp_sig, verified, low_s>>
    /\ UNCHANGED nonEcVars

\* crypto::sign::verify(&public, &sign, &hash) on the (r, s) of a signature
\* the library parsed
EcCryptoVerify ==
    /\ ec_pc = "signed"
    /\ \E pub \in PublicArgs(keypair), sig \in SigArgs(signature) :
          /\ from_compact(SubSeq(sig, 1, 64), 0).ok
          /\ vp_public' = pub
          /\ vp_sig' = sig
          /\ LET out == crypto_sign_verify(pub, [r |-> sig[32], s |-> sig[64]], message)
             IN  /\ cs_out' = IF out.panic THEN NoResult ELSE OkBool(out.val)
                 /\ ec_pc' = IF out.panic THEN "unwrap panic" ELSE "crypto verified"
    /\ UNCHANGED <<secret, message, keypair, signature, rc_sig, recovered, verified, low_s>>
    /\ UNCHANGED nonEcVars

NextEc ==
    \/ EcFromSecret \/ EcSign \/ EcRecover \/ EcVerifyPublic \/ EcIsLowS
    \/ EcCryptoSign \/ EcCryptoVerify

SpecEc == InitEc /\ [][NextEc]_vars

(***************************************************************************)
(* Properties of sign, recover and verify_public.                          *)
(***************************************************************************)
\* the signature sign returned verifies under the signer's public key
SignThenVerify ==
    (ec_pc = "verified" /\ keypair.tag = "Ok" /\ signature.tag = "Ok"
        /\ vp_public = keypair.val /\ vp_sig = signature.val)
    => verified = OkBool(TRUE)

\* C9: for a valid secret s with key pair K and a 32-byte message m, sign
\* succeeds and recover(sign(s, m), m) returns Ok(K.public), 64 bytes.
C9_SignThenRecover ==
    /\ (ec_pc \in {"signed", "recovered", "verified"} /\ keypair.tag = "Ok")
          => signature.tag = "Ok"
    /\ (ec_pc = "recovered" /\ keypair.tag = "Ok" /\ signature.tag = "Ok"
            /\ rc_sig = signature.val)
          => /\ recovered = OkBytes(keypair.val)
             /\ Len(recovered.val) = 64

C9_Witness ==
    /\ ec_pc = "recovered"
    /\ keypair.tag = "Ok"
    /\ signature.tag = "Ok"
    /\ rc_sig = signature.val
    /\ recovered = OkBytes(keypair.val)

\* the inputs of verify_public that are structurally invalid: a recovery
\* id the library rejects, R or S not below the group order, or a public
\* key that is no point of the curve
StructurallyInvalid(pub, sig) ==
    \/ sig[65] \notin 0..3
    \/ ~LexLess(SubSeq(sig, 1, 32), BE32(GroupN))
    \/ ~LexLess(SubSeq(sig, 33, 64), BE32(GroupN))
    \/ ~LexLess(SubSeq(pub, 1, 32), BE32(FieldP))
    \/ ~LexLess(SubSeq(pub, 33, 64), BE32(FieldP))
    \/ ~OnCurve(pub[32], pub[64])

\* whether the curve library accepts R || S for the key and the message
LibraryAccepts(pub, sig, msg) ==
    secp_verify(ReduceModN(msg), [r |-> sig[32], s |-> sig[64]],
                Point(pub[32], pub[64])).ok

\* C10: verify_public returns Err exactly for structurally invalid inputs;
\* for the others it returns Ok(true) when the library accepts the
\* signature and Ok(false) when it does not: an incorrect signature is
\* never an Err.
C10_VerifyPublicOutcomes ==
    ec_pc = "verified" =>
        /\ verified.tag \in {"Ok", "Err"}
        /\ verified.tag = "Err" <=> StructurallyInvalid(vp_public, vp_sig)
        /\ ~StructurallyInvalid(vp_public, vp_sig) =>
              verified = OkBool(LibraryAccepts(vp_public, vp_sig, message))

C10_Witness ==
    /\ ec_pc = "verified"
    /\ keypair.tag = "Ok"
    /\ vp_public = keypair.val
    /\ vp_sig # signature.val
    /\ verified = OkBool(FALSE)

(***************************************************************************)
(* Properties of new_merkle_tree.                                          *)
(***************************************************************************)
RootData == root[1].data

\* the step-by-step run and the function agree on the returned tree
MerkleStepsAgree ==
    mk_pc = "done" => new_merkle_tree(leaves).root = root

\* C1: for three leaves [L1, L2, L3] the returned root's data is
\* H(H(H(L1) || H(L2)) || H(H(L3) || H(L3))): the last leaf is duplicated
\* before pairing.
C1_ThreeLeafRoot ==
    (mk_pc = "done" /\ Len(leaves) = 3) =>
        /\ Len(root) = 1
        /\ RootData =
             to_keccak(to_keccak(to_keccak(leaves[1]) \o to_keccak(leaves[2]))
                       \o to_keccak(to_keccak(leaves[3]) \o to_keccak(leaves[3])))

C1_Witness ==
    mk_pc = "done" /\ Len(leaves) = 3 /\ Distinct(leaves)

\* The reference algorithm: at every level an odd number of digests is
\* padded with a copy of the last one, then adjacent digests are paired.
RECURSIVE RefLevels(_)
RefLevels(ds) ==
    LET padded == IF Len(ds) % 2 # 0 THEN Append(ds, ds[Len(ds)]) ELSE ds
        nl == [k \in 1..(Len(padded) \div 2) |->
                  to_keccak(padded[2 * k - 1] \o padded[2 * k])]
    IN  IF Len(nl) = 1 THEN nl[1] ELSE RefLevels(nl)

RefRoot(ls) == RefLevels([k \in 1..Len(ls) |-> to_keccak(ls[k])])

\* C2: for every non-empty leaf list the root equals the root of the
\* reference algorithm that pads every odd level, intermediate levels
\* included.
C2_PadsEveryOddLevel ==
    mk_pc = "done" => RootData = RefRoot(leaves)

Swap(s, p, q) ==
    [k \in 1..Len(s) |-> IF k = p THEN s[q] ELSE IF k = q THEN s[p] ELSE s[k]]

\* C3: for pairwise distinct leaves, swapping two leaves (at any two
\* indices) gives a different root, and building again from the same list
\* gives the same root.
C3_OrderedCommitment ==
    (mk_pc = "done" /\ Distinct(leaves)) =>
        /\ new_merkle_tree(leaves).root = root
        /\ \A p, q \in 1..Len(leaves) :
              p < q => new_merkle_tree(Swap(leaves, p, q)).root # root

\* C4: for a non-empty leaf list the level loop reads nodes[j] and
\* nodes[j+1] within bounds, never panics, leaves the loop with exactly one
\* node, and the call ends returning Some(root).
C4_TerminatesWithOneRoot ==
    (leaves # <<>>) =>
        /\ [](mk_pc # "panic")
        /\ []((mk_pc = "while" /\ WhileCond(i, nodes)) => j + 1 < Len(nodes))
        /\ [](mk_pc = "ret" => Len(nodes) = 1)
        /\ <>(mk_pc = "done" /\ Len(root) = 1)

C4_Witness ==
    mk_pc = "done" /\ Len(leaves) = 5 /\ Len(root) = 1

\* C5: the call with an empty leaf list ends in a panic.
C5_EmptyListPanics ==
    (leaves = <<>>) => <>(mk_pc = "panic")

(***************************************************************************)
(* Strings.  A str is the sequence of its chars (Unicode scalar values);   *)
(* str::len is the length of its UTF-8 encoding.                           *)
(***************************************************************************)
\* the UTF-8 encoding of a char below U+0800
utf8(c) == IF c < 128 THEN << c >> ELSE << 192 + (c \div 64), 128 + (c % 64) >>

\* the number of bytes the first k chars of s take
Utf8Offset(s, k) == k + Cardinality({ m \in 1..k : s[m] >= 128 })

\* str::as_bytes: the chars' encodings, one after the other
as_bytes(s) ==
    IF \A m \in 1..Len(s) : s[m] < 128 THEN s
    ELSE [n \in 1..Utf8Offset(s, Len(s)) |->
             LET k == CHOOSE k \in 1..Len(s) :
                          Utf8Offset(s, k - 1) < n /\ n <= Utf8Offset(s, k)
             IN  utf8(s[k])[n - Utf8Offset(s, k - 1)]]

\* str::len
str_len(s) == Len(as_bytes(s))

\* "0123456789abcdef"
HexChars == << 48, 49, 50, 51, 52, 53, 54, 55, 56, 57, 97, 98, 99, 100, 101, 102 >>

\* the digit a byte of the input stands for, -1 if it is no hex digit
HexVal(c) ==
    IF c >= 48 /\ c <= 57 THEN c - 48
    ELSE IF c >= 97 /\ c <= 102 THEN c - 87
    ELSE IF c >= 65 /\ c <= 70 THEN c - 55
    ELSE -1

\* common::to_hex = hex::encode: two lowercase digits per byte
to_hex(bytes) ==
    [n \in 1..(2 * Len(bytes)) |->
        IF n % 2 = 1 THEN HexChars[(bytes[(n + 1) \div 2] \div 16) + 1]
        ELSE HexChars[(bytes[n \div 2] % 16) + 1]]

\* common::from_hex = hex::decode: an even number of hex digits of either
\* case and nothing else
from_hex(s) ==
    LET b == as_bytes(s)
    IN  IF Len(b) % 2 # 0 THEN Err("FromHexError")
        ELSE IF \E n \in 1..Len(b) : HexVal(b[n]) < 0 THEN Err("FromHexError")
        ELSE OkBytes([n \in 1..(Len(b) \div 2) |->
                         16 * HexVal(b[2 * n - 1]) + HexVal(b[2 * n])])

\* <Signature as Display>::fmt
Signature_Display(sig) == to_hex(SubSeq(sig, 1, Len(sig)))

\* <Signature as FromStr>::from_str with the copy into the array left out
Signature_from_str_NoCopy(s) ==
    LET dec_hex == from_hex(s)
    IN  IF dec_hex.tag = "Ok" /\ Len(dec_hex.val) = 65
        THEN OkBytes(Zeros(SIGNATURE_SIZE))
        ELSE Err("InvalidSignature")

\* <Signature as FromStr>::from_str
Signature_from_str(s) ==
    LET dec_hex == from_hex(s)
    IN  IF dec_hex.tag = "Ok" /\ Len(dec_hex.val) = 65
        THEN OkBytes([n \in 1..SIGNATURE_SIZE |-> SubSeq(dec_hex.val, 1, 65)[n]])
        ELSE Err("InvalidSignature")

(***************************************************************************)
(* crypto::Hash                                                            *)
(***************************************************************************)
HASH_SIZE == 32

\* Hash::new: assert_eq!(b.len(), HASH_SIZE), then the copy
Hash_new(b) ==
    IF Len(b) # HASH_SIZE THEN Panicked(<<>>)
    ELSE Val([n \in 1..32 |-> b[n]])

\* Hash::to_hex
Hash_to_hex(h) == to_hex(h)

\* <Hash as Debug>::fmt : "0x" and the hex digits
Hash_Debug(h) == << 48, 120 >> \o Hash_to_hex(h)

\* <Hash as FromStr>::from_str: the chars of a string of 32 bytes, or of 34
\* bytes less its first two chars, each cast to u8
Hash_from_str(s) ==
    IF str_len(s) = HASH_SIZE
    THEN LET out == [n \in 1..Len(s) |-> s[n] % 256]
             h == Hash_new(out)
         IN  IF h.panic THEN Panicked(NoResult) ELSE Val(OkBytes(h.val))
    ELSE IF str_len(s) = HASH_SIZE + 2
    THEN LET out == [n \in 1..(IF Len(s) > 2 THEN Len(s) - 2 ELSE 0) |-> s[n + 2] % 256]
             h == Hash_new(out)
         IN  IF h.panic THEN Panicked(NoResult) ELSE Val(OkBytes(h.val))
    ELSE Val(Err("InvalidHexLength"))

(***************************************************************************)
(* ethkey::Secret from text                                                *)
(***************************************************************************)
\* H256::from_str (ethereum_types): 64 hex digits, no prefix
H256_from_str(s) ==
    LET a == from_hex(s)
    IN  IF a.tag = "Ok" /\ Len(a.val) = 32 THEN OkBytes(a.val)
        ELSE Err("FromHexError")

\* <Secret as FromStr>::from_str up to the call of .into(): the error it
\* returns, or the H256 it hands to From<H256> for Secret
Secret_from_str(s) ==
    LET h == H256_from_str(s)
    IN  IF h.tag = "Ok" THEN h ELSE Err("Custom")

(***************************************************************************)
(* A caller of the text forms: it renders a Signature or a Hash, possibly  *)
(* alters the string, and parses it back; or it parses a string of its     *)
(* own.                                                                    *)
(***************************************************************************)
\* a byte pattern that uses many different hex digits
Pattern(len) == [n \in 1..len |-> (n * 37) % 256]

TxSignatures ==
    { sig \in Signatures : sig[65] \in {1, 27} } \cup { Pattern(SIGNATURE_SIZE) }

TxHashes == Scalars32 \cup { Pattern(HASH_SIZE) }

Repeat(c, len) == [n \in 1..len |-> c]

\* strings of the caller's own: the empty string, odd length, no hex digits,
\* a char of two bytes
RawSignatureStrings == { <<>>, << 48 >>, << 122, 122 >>, << 233 >>, << 233, 233 >> }

\* 32 and 34 bytes of ASCII, 32 and 34 bytes in fewer chars, other lengths
RawHashStrings ==
    { Repeat(97, 32), << 48, 120 >> \o Repeat(49, 32), Repeat(233, 16),
      Repeat(97, 30) \o << 233 >>, << 48, 120 >> \o Repeat(233, 16),
      Repeat(233, 17), <<>>, Repeat(97, 33) }

\* 64 hex digits, and strings that are not
RawSecretStrings ==
    { to_hex(b) : b \in Scalars32 \cup { Pattern(32) } }
    \cup { << 48, 120 >> \o to_hex(BE32(1)), SubSeq(to_hex(BE32(1)), 1, 63),
           [to_hex(BE32(1)) EXCEPT ![1] = 103], <<>> }

Edits == { "0x", "upper", "truncate", "short", "long", "badchar" }

\* what the caller does to a rendered string
Edit(e, str) ==
    CASE e = "0x" -> << 48, 120 >> \o str
      [] e = "upper" -> [n \in 1..Len(str) |->
                            IF str[n] >= 97 /\ str[n] <= 102 THEN str[n] - 32 ELSE str[n]]
      [] e = "truncate" -> SubSeq(str, 1, Len(str) - 1)
      [] e = "short" -> SubSeq(str, 1, Len(str) - 2)
      [] e = "long" -> str \o << 48, 48 >>
      [] e = "badchar" -> [str EXCEPT ![1] = 103]

\* frames the stack holds before it overflows
MaxStack == 4

InitTx ==
    /\ \/ /\ tx_pc = "start"
          /\ \/ tx_type = "Signature" /\ tx_value \in TxSignatures
             \/ tx_type = "Hash" /\ tx_value \in TxHashes
          /\ tx_str = <<>>
       \/ /\ tx_pc = "text"
          /\ tx_value = <<>>
          /\ \/ tx_type = "Signature" /\ tx_str \in RawSignatureStrings
             \/ tx_type = "Hash" /\ tx_str \in RawHashStrings
             \/ tx_type = "Secret" /\ tx_str \in RawSecretStrings
    /\ tx_edit = "none"
    /\ tx_out = NoResult
    /\ tx_depth = 0
    /\ MerkleIdle
    /\ SigIdle
    /\ EcIdle
    /\ KyIdle
    /\ ChIdle
    /\ MzIdle
    /\ HsIdle
    /\ SkIdle
    /\ MdIdle

\* format!("{}", signature)
TxSignatureDisplay ==
    /\ tx_pc = "start"
    /\ tx_type = "Signature"
    /\ tx_str' = Signature_Display(tx_value)
    /\ tx_pc' = "text"
    /\ UNCHANGED <<tx_type, tx_value, tx_edit, tx_out, tx_depth>>
    /\ UNCHANGED nonTxVars

\* hash.to_hex()
TxHashToHex ==
    /\ tx_pc = "start"
    /\ tx_type = "Hash"
    /\ tx_str' = Hash_to_hex(tx_value)
    /\ tx_pc' = "text"
    /\ UNCHANGED <<tx_type, tx_value, tx_edit, tx_out, tx_depth>>
    /\ UNCHANGED nonTxVars

\* format!("{:?}", hash)
TxHashDebug ==
    /\ tx_pc = "start"
    /\ tx_type = "Hash"
    /\ tx_str' = Hash_Debug(tx_value)
    /\ tx_pc' = "text"
    /\ UNCHANGED <<tx_type, tx_value, tx_edit, tx_out, tx_depth>>
    /\ UNCHANGED nonTxVars

\* the caller alters the rendered string
TxEdit ==
    /\ tx_pc = "text"
    /\ tx_value # <<>>
    /\ tx_edit = "none"
    /\ \E e \in Edits :
          /\ tx_edit' = e
          /\ tx_str' = Edit(e, tx_str)
    /\ UNCHANGED <<tx_pc, tx_type, tx_value, tx_out, tx_depth>>
    /\ UNCHANGED nonTxVars

\* Signature::from_str(&string)
TxSignatureFromStr ==
    /\ tx_pc = "text"
    /\ tx_type = "Signature"
    /\ tx_out' = Signature_from_str(tx_str)
    /\ tx_pc' = "parsed"
    /\ UNCHANGED <<tx_type, tx_value, tx_str, tx_edit, tx_depth>>
    /\ UNCHANGED nonTxVars

\* Hash::from_str(&string)
TxHashFromStr ==
    /\ tx_pc = "text"
    /\ tx_type = "Hash"
    /\ LET out == Hash_from_str(tx_str)
       IN  /\ tx_out' = out.val
           /\ tx_pc' = IF out.panic THEN "panic" ELSE "parsed"
    /\ UNCHANGED <<tx_type, tx_value, tx_str, tx_edit, tx_depth>>
    /\ UNCHANGED nonTxVars

\* Secret::from_str(&string): the error of H256::from_str is returned, its
\* H256 is handed to From<H256> for Secret
TxSecretFromStr ==
    /\ tx_pc = "text"
    /\ tx_type = "Secret"
    /\ LET h == Secret_from_str(tx_str)
       IN  IF h.tag = "Ok"
           THEN /\ tx_value' = h.val
                /\ tx_pc' = "from_h256"
                /\ tx_depth' = 1
                /\ UNCHANGED tx_out
           ELSE /\ tx_out' = h
                /\ tx_pc' = "parsed"
                /\ UNCHANGED <<tx_value, tx_depth>>
    /\ UNCHANGED <<tx_type, tx_str, tx_edit>>
    /\ UNCHANGED nonTxVars

\* <Secret as From<H256>>::from: its body is s.into(), which is the
\* function itself; each call takes a frame until the stack overflows
TxSecretFromH256 ==
    /\ tx_pc = "from_h256"
    /\ IF tx_depth < MaxStack
       THEN tx_depth' = tx_depth + 1 /\ UNCHANGED tx_pc
       ELSE tx_pc' = "abort" /\ UNCHANGED tx_depth
    /\ UNCHANGED <<tx_type, tx_value, tx_str, tx_edit, tx_out>>
    /\ UNCHANGED nonTxVars

NextTx ==
    \/ TxSignatureDisplay
    \/ TxHashToHex
    \/ TxHashDebug
    \/ TxEdit
    \/ TxSignatureFromStr
    \/ TxHashFromStr
    \/ TxSecretFromStr
    \/ TxSecretFromH256

SpecTx == InitTx /\ [][NextTx]_vars

(***************************************************************************)
(* Properties of the text forms.                                           *)
(***************************************************************************)
IsHexDigits(str) == \A n \in 1..Len(str) : HexVal(str[n]) >= 0

StripPrefix(str) ==
    IF Len(str) >= 2 /\ str[1] = 48 /\ str[2] = 120 THEN SubSeq(str, 3, Len(str))
    ELSE str

\* C12: a signature rendered with Display is 130 hex digits, and from_str
\* of that string returns the signature.
C12_DisplayFromStrRoundTrip ==
    (tx_type = "Signature" /\ tx_pc = "parsed" /\ tx_value # <<>> /\ tx_edit = "none")
    => /\ Len(tx_str) = 130
       /\ IsHexDigits(tx_str)
       /\ tx_out = OkBytes(tx_value)

C12_Witness ==
    /\ tx_type = "Signature" /\ tx_pc = "parsed" /\ tx_edit = "none"
    /\ tx_value = Pattern(SIGNATURE_SIZE)
    /\ tx_out.tag = "Ok"

\* C13: Signature::from_str returns the signature for its 130 hex digits
\* with or without a leading 0x, and Error::InvalidSignature for every
\* string that is not hex or does not decode to 65 bytes.
C13_FromStrOptionalPrefix ==
    (tx_type = "Signature" /\ tx_pc = "parsed")
    => IF IsHexDigits(StripPrefix(tx_str)) /\ Len(StripPrefix(tx_str)) = 130
       THEN tx_out = OkBytes(tx_value)
       ELSE tx_out = Err("InvalidSignature")

\* C14: Hash::from_str returns the hash for its 64 hex digits with or
\* without a leading 0x, an error for every string that does not decode to
\* 32 bytes, and never panics.
C14_HashFromStr ==
    tx_type = "Hash"
    => /\ tx_pc # "panic"
       /\ tx_pc = "parsed"
          => IF IsHexDigits(StripPrefix(tx_str)) /\ Len(StripPrefix(tx_str)) = 64
             THEN tx_out = OkBytes(tx_value)
             ELSE tx_out.tag = "Err"

\* C17: Secret::from_str terminates: for 64 hex digits it returns the secret
\* of the decoded bytes, for malformed hex an error, and it never aborts.
C17_SecretFromStrReturns ==
    tx_type = "Secret"
    => /\ tx_pc # "abort"
       /\ tx_pc = "parsed"
          => IF IsHexDigits(tx_str) /\ Len(tx_str) = 64
             THEN tx_out = from_hex(tx_str)
             ELSE tx_out.tag = "Err"

(***************************************************************************)
(* Canonical form of the signatures sign returns.                          *)
(***************************************************************************)
\* C11: every signature sign returns is canonical: is_low_s holds for it
\* (S is at most half the curve order) and its recovery id byte is 0 or 1.
C11_SignIsCanonical ==
    /\ (signature.tag = "Ok" => signature.val[65] \in {0, 1})
    /\ (ec_pc \in {"low_s", "panic"} => ec_pc = "low_s" /\ low_s = OkBool(TRUE))

(***************************************************************************)
(* Digests as bytes.  The n-th byte of the digest of x is an atom of its   *)
(* own; the digest of the empty input is the known constant.               *)
(***************************************************************************)
\* a plain byte array as a byte string of atoms
Bytes(arr) == [n \in 1..Len(arr) |-> Byte(arr[n])]

\* keccak-256 of the empty input
KECCAK_EMPTY ==
    << 197, 210, 70, 1, 134, 247, 35, 60, 146, 126, 125, 178, 220, 199, 3, 192,
       229, 0, 182, 83, 202, 130, 39, 59, 123, 250, 216, 4, 93, 133, 164, 112 >>

\* the 32 bytes of an H256 (as_ref, indexing)
H256_bytes(digest) ==
    IF digest[1].of = <<>> THEN Bytes(KECCAK_EMPTY)
    ELSE [n \in 1..32 |-> [kind |-> "keccak", val |-> n, of |-> digest[1].of]]

\* crypto::hash: Hash::new of the bytes of to_keccak(data)
hash(bytes) ==
    LET digest == to_keccak(bytes)
    IN  Hash_new(H256_bytes(digest))

\* parity_crypto::Keccak256::keccak256: keccak-256 of the bytes, as [u8; 32]
keccak256(bytes) == H256_bytes(to_keccak(bytes))

(***************************************************************************)
(* ethkey::Secret, ethkey::KeyPair: constructors and the address.          *)
(***************************************************************************)
\* <Secret as From<[u8; 32]>>::from
Secret_from_array(k) == [n \in 1..32 |-> k[n]]

\* Secret::from_slice: None unless the length is 32
Secret_from_slice(key) ==
    IF Len(key) # 32 THEN None
    ELSE Some(Secret_from_array(key))

\* <Secret as From<key::SecretKey>>::from: the 32 bytes of the scalar
Secret_from_SecretKey(d) == Secret_from_array(SubSeq(BE32(d), 1, 32))

\* Secret::from_unsafe_slice with the library's validation left out
Secret_from_unsafe_slice_NoCheck(key) ==
    IF Len(key) # 32 THEN Err("InvalidSecretKey")
    ELSE OkBytes(Secret_from_array(key))

\* Secret::from_unsafe_slice: the library validates the key
Secret_from_unsafe_slice(key) ==
    LET secrect == SecretKey_from_slice(key)
    IN  IF ~secrect.ok THEN Err(secrect.err)
        ELSE OkBytes(Secret_from_SecretKey(secrect.d))

\* Secret::check_validity
check_validity(sec) ==
    LET s == SecretKey_from_slice(sec)
    IN  IF s.ok THEN OkBool(TRUE) ELSE Err(s.err)

\* KeyPair::from_secret_slice
KeyPair_from_secret_slice(slice) ==
    LET sec == Secret_from_unsafe_slice(slice)
    IN  IF sec.tag # "Ok" THEN Made("Err", <<>>, <<>>, sec.err)
        ELSE LET pub == KeyPair_from_secret(sec.val)
             IN  IF pub.tag # "Ok" THEN Made("Err", <<>>, <<>>, pub.err)
                 ELSE Made("Ok", sec.val, pub.val, "")

\* KeyPair::from_keypair: the scalar sec and the point publ as they come
KeyPair_from_keypair(sec, publ) ==
    LET serialized == serialize_vec(publ)
    IN  Made("Ok", Secret_from_SecretKey(sec), SubSeq(serialized, 2, 65), "")

\* Secp256k1::generate_keypair with the random scalar d
generate_keypair(d) == [sec |-> d, publ |-> ec_mul(d, Generator)]

\* <OsRng as Generator>::generate
generate(d) ==
    LET pair == generate_keypair(d)
    IN  KeyPair_from_keypair(pair.sec, pair.publ)

\* public_to_address taking the first 20 bytes of the hash
public_to_address_First20(public) ==
    LET h == keccak256(Bytes(public))
        tail == SliceOf(h, 0, 20)
    IN  [n \in 1..20 |-> tail.val[n]]

\* public_to_address: bytes 12.. of the keccak-256 of the public key
public_to_address(public) ==
    LET h == keccak256(Bytes(public))
        tail == SliceOf(h, 12, Len(h))
    IN  [n \in 1..20 |-> tail.val[n]]

\* KeyPair::address
KeyPair_address(pair) == public_to_address(pair.public)

(***************************************************************************)
(* A caller of the constructors: it builds a Secret or a KeyPair, then     *)
(* checks the secret or takes the address.                                 *)
(***************************************************************************)
\* byte slices handed to the constructors: every scalar up to past the
\* group order, all ones, and slices of other lengths
KeySlices ==
    Secrets \cup { <<>>, SubSeq(BE32(1), 1, 31), Append(BE32(1), 0) }

\* points of the curve as 64 raw bytes, and 64 zero bytes
Publics ==
    { SubSeq(serialize_vec(ec_mul(e, Generator)), 2, 65) : e \in 1..(GroupN - 1) }
    \cup { Zeros(64) }

\* library keys a caller may hold: a scalar and a point, of the same pair or not
LibraryPairs ==
    { [sec |-> d, publ |-> ec_mul(e, Generator)] :
         d \in {1, 2, GroupN - 1}, e \in 1..(GroupN - 1) }

InitKy ==
    /\ ky_pc = "start"
    /\ \/ ky_op \in {"Secret::from_slice", "Secret::from_unsafe_slice",
                     "KeyPair::from_secret_slice"}
          /\ ky_arg \in KeySlices
       \/ ky_op \in {"Secret::from", "KeyPair::from_secret"} /\ ky_arg \in Secrets
       \/ ky_op = "KeyPair::from_keypair" /\ ky_arg \in LibraryPairs
       \/ ky_op = "Random::generate" /\ ky_arg = <<>>
       \/ ky_op = "public_to_address" /\ ky_arg \in Publics
    /\ ky_out = NoKey
    /\ ky_valid = NoResult
    /\ ky_address = <<>>
    /\ MerkleIdle
    /\ SigIdle
    /\ EcIdle
    /\ TxIdle
    /\ ChIdle
    /\ MzIdle
    /\ HsIdle
    /\ SkIdle
    /\ MdIdle

\* Secret::from_slice(key)
KySecretFromSlice ==
    /\ ky_pc = "start"
    /\ ky_op = "Secret::from_slice"
    /\ LET out == Secret_from_slice(ky_arg)
       IN  ky_out' = IF out = None THEN Made("None", <<>>, <<>>, "")
                     ELSE Made("Some", out[1], <<>>, "")
    /\ ky_pc' = "made"
    /\ UNCHANGED <<ky_op, ky_arg, ky_valid, ky_address>>
    /\ UNCHANGED nonKyVars

\* Secret::from_unsafe_slice(key)
KySecretFromUnsafeSlice ==
    /\ ky_pc = "start"
    /\ ky_op = "Secret::from_unsafe_slice"
    /\ LET out == Secret_from_unsafe_slice(ky_arg)
       IN  ky_out' = Made(out.tag, out.val, <<>>, out.err)
    /\ ky_pc' = "made"
    /\ UNCHANGED <<ky_op, ky_arg, ky_valid, ky_address>>
    /\ UNCHANGED nonKyVars

\* Secret::from(k) for k : [u8; 32]
KySecretFromArray ==
    /\ ky_pc = "start"
    /\ ky_op = "Secret::from"
    /\ ky_out' = Made("Ok", Secret_from_array(ky_arg), <<>>, "")
    /\ ky_pc' = "made"
    /\ UNCHANGED <<ky_op, ky_arg, ky_valid, ky_address>>
    /\ UNCHANGED nonKyVars

\* secret.check_validity() on the secret a Secret constructor returned
KyCheckValidity ==
    /\ ky_pc = "made"
    /\ ky_op \in {"Secret::from_slice", "Secret::from_unsafe_slice", "Secret::from"}
    /\ ky_out.tag \in {"Ok", "Some"}
    /\ ky_valid' = check_validity(ky_out.secret)
    /\ ky_pc' = "checked"
    /\ UNCHANGED <<ky_op, ky_arg, ky_out, ky_address>>
    /\ UNCHANGED nonKyVars

\* KeyPair::from_secret(secret)
KyFromSecret ==
    /\ ky_pc = "start"
    /\ ky_op = "KeyPair::from_secret"
    /\ LET pub == KeyPair_from_secret(ky_arg)
       IN  ky_out' = IF pub.tag = "Ok" THEN Made("Ok", ky_arg, pub.val, "")
                     ELSE Made("Err", <<>>, <<>>, pub.err)
    /\ ky_pc' = "made"
    /\ UNCHANGED <<ky_op, ky_arg, ky_valid, ky_address>>
    /\ UNCHANGED nonKyVars

\* KeyPair::from_secret_slice(slice)
KyFromSecretSlice ==
    /\ ky_pc = "start"
    /\ ky_op = "KeyPair::from_secret_slice"
    /\ ky_out' = KeyPair_from_secret_slice(ky_arg)
    /\ ky_pc' = "made"
    /\ UNCHANGED <<ky_op, ky_arg, ky_valid, ky_address>>
    /\ UNCHANGED nonKyVars

\* KeyPair::from_keypair(sec, publ)
KyFromKeypair ==
    /\ ky_pc = "start"
    /\ ky_op = "KeyPair::from_keypair"
    /\ ky_out' = KeyPair_from_keypair(ky_arg.sec, ky_arg.publ)
    /\ ky_pc' = "made"
    /\ UNCHANGED <<ky_op, ky_arg, ky_valid, ky_address>>
    /\ UNCHANGED nonKyVars

\* Random.generate(): the library draws the scalar
KyGenerate ==
    /\ ky_pc = "start"
    /\ ky_op = "Random::generate"
    /\ \E d \in 1..(GroupN - 1) : ky_out' = generate(d)
    /\ ky_pc' = "made"
    /\ UNCHANGED <<ky_op, ky_arg, ky_valid, ky_address>>
    /\ UNCHANGED nonKyVars

\* keypair.address() on the pair a KeyPair constructor returned
KyAddress ==
    /\ ky_pc = "made"
    /\ ky_op \in {"KeyPair::from_secret", "KeyPair::from_secret_slice",
                  "KeyPair::from_keypair", "Random::generate"}
    /\ ky_out.tag = "Ok"
    /\ ky_address' = KeyPair_address(ky_out)
    /\ ky_pc' = "addressed"
    /\ UNCHANGED <<ky_op, ky_arg, ky_out, ky_valid>>
    /\ UNCHANGED nonKyVars

\* public_to_address(&public)
KyPublicToAddress ==
    /\ ky_pc = "start"
    /\ ky_op = "public_to_address"
    /\ ky_out' = Made("Ok", <<>>, ky_arg, "")
    /\ ky_address' = public_to_address(ky_arg)
    /\ ky_pc' = "addressed"
    /\ UNCHANGED <<ky_op, ky_arg, ky_valid>>
    /\ UNCHANGED nonKyVars

NextKy ==
    \/ KySecretFromSlice
    \/ KySecretFromUnsafeSlice
    \/ KySecretFromArray
    \/ KyCheckValidity
    \/ KyFromSecret
    \/ KyFromSecretSlice
    \/ KyFromKeypair
    \/ KyGenerate
    \/ KyAddress
    \/ KyPublicToAddress

SpecKy == InitKy /\ [][NextKy]_vars

(***************************************************************************)
(* Properties of the constructors and of the address.                      *)
(***************************************************************************)
SecretConstructors == {"Secret::from_slice", "Secret::from_unsafe_slice", "Secret::from"}

KeyPairConstructors ==
    {"KeyPair::from_secret", "KeyPair::from_secret_slice", "KeyPair::from_keypair",
     "Random::generate"}

\* 32 bytes that are a scalar of the group: not zero, below the group order
InScalarRange(bytes) ==
    /\ Len(bytes) = 32
    /\ bytes # Zeros(32)
    /\ LexLess(bytes, BE32(GroupN))

PublicOf(sec) == SubSeq(serialize_vec(ec_mul(ScalarOf(sec), Generator)), 2, 65)

\* C16: the public key of every KeyPair a constructor returns is the X || Y
\* of secret * G.
C16_PublicBelongsToSecret ==
    (ky_op \in KeyPairConstructors /\ ky_out.tag = "Ok")
    => ky_out.public = PublicOf(ky_out.secret)

\* C18: the address of a public key is the last 20 of the 32 bytes of
\* crypto::hash of its 64 bytes, and KeyPair::address is that of the pair's
\* public key.
C18_AddressIsHashTail ==
    ky_pc = "addressed"
    => /\ Len(ky_address) = 20
       /\ ky_address = SubSeq(hash(Bytes(ky_out.public)).val, 13, 32)

C18_Witness ==
    /\ ky_pc = "addressed"
    /\ ky_op = "KeyPair::from_secret"
    /\ ky_out.public = PublicOf(BE32(3))
    /\ ky_address[20] = [kind |-> "keccak", val |-> 32, of |-> Bytes(PublicOf(BE32(3)))]

(***************************************************************************)
(* crypto::CryptoHash and its implementations.  A Hash that comes out of   *)
(* the hash function is a byte string of atoms, and EMPTY_HASH is written  *)
(* the same way.                                                           *)
(***************************************************************************)
EMPTY_HASH == Bytes(Zeros(HASH_SIZE))

\* crypto::empty_hash
empty_hash(h) == h = EMPTY_HASH

\* rmp_serde's encoding of a u8
Serialize_u8(n) == IF n < 128 THEN << n >> ELSE << 204, n >>

\* rmp_serde's encoding of an i8
Serialize_i8(n) ==
    IF n >= 0 THEN << n >>
    ELSE IF n >= -32 THEN << 256 + n >>
    ELSE << 208, 256 + n >>

RECURSIVE SerializeElems(_)
SerializeElems(v) ==
    IF v = <<>> THEN <<>> ELSE Serialize_u8(Head(v)) \o SerializeElems(Tail(v))

\* value.serialize(&mut Serializer::new(&mut buf)): the msgpack bytes of a
\* value; unit is the bytes the linked rmp_serde writes for ().  The content
\* of a value is a sequence: the one number of a scalar (0 and 1 for a
\* bool), the chars of a String, the bytes of a Vec<u8>
Serialize(value, unit) ==
    CASE value.type = "bool" -> IF value.val[1] = 1 THEN << 195 >> ELSE << 194 >>
      [] value.type = "u8" -> Serialize_u8(value.val[1])
      [] value.type = "i8" -> Serialize_i8(value.val[1])
      [] value.type = "String" -> << 160 + Len(as_bytes(value.val)) >> \o as_bytes(value.val)
      [] value.type = "()" -> unit
      [] value.type = "Vec<u8>" -> << 144 + Len(value.val) >> \o SerializeElems(value.val)

\* implement_cryptohash_traits!: serialize into buf, hash(&buf)
CryptoHash_macro(value, unit) == hash(Bytes(Serialize(value, unit))).val

\* <() as CryptoHash>::hash
CryptoHash_unit(value, unit) == hash(Bytes(Serialize(value, unit))).val

\* <Zero as CryptoHash>::hash returning the hash of no bytes
CryptoHash_Zero_HashOfNothing(value) == hash(<<>>).val

\* <Zero as CryptoHash>::hash
CryptoHash_Zero(value) == EMPTY_HASH

\* <Vec<u8> as CryptoHash>::hash: hash(self), the bytes as they are
CryptoHash_Vec(value) == hash(Bytes(value.val)).val

(***************************************************************************)
(* A caller that hashes a value through CryptoHash and tests the result    *)
(* with empty_hash.                                                        *)
(***************************************************************************)
Typed(type, val) == [type |-> type, val |-> val]

\* "", "a", "b", "ab", and a string of a two-byte char
SampleStrings == { <<>>, << 97 >>, << 98 >>, << 97, 98 >>, << 233 >> }

\* byte vectors: empty, one byte, bytes that are msgpack markers, two bytes
SampleVecs ==
    { <<>>, << 0 >>, << 1 >>, << 10 >>, << 144 >>, << 192 >>, << 195 >>, << 255 >>,
      << 1, 2 >>, << 2, 1 >>, << 145, 1 >> }

HashedValues ==
    { Typed("bool", << b >>) : b \in {0, 1} }
    \cup { Typed("u8", << n >>) : n \in {0, 1, 2, 127, 128, 194, 255} }
    \cup { Typed("i8", << n >>) : n \in {-128, -33, -32, -1, 0, 1, 127} }
    \cup { Typed("String", str) : str \in SampleStrings }
    \cup { Typed("()", <<>>), Typed("Zero", <<>>) }
    \cup { Typed("Vec<u8>", v) : v \in SampleVecs }

\* nil (rmp_serde 0.14 and later) or an empty array (before)
UnitEncodings == { << 192 >>, << 144 >> }

InitCh ==
    /\ ch_pc = "start"
    /\ ch_value \in HashedValues
    /\ rmp_unit \in UnitEncodings
    /\ ch_out = <<>>
    /\ ch_empty = FALSE
    /\ MerkleIdle
    /\ SigIdle
    /\ EcIdle
    /\ TxIdle
    /\ KyIdle
    /\ MzIdle
    /\ HsIdle
    /\ SkIdle
    /\ MdIdle

\* value.hash() for the types of implement_cryptohash_traits!
ChHashMacro ==
    /\ ch_pc = "start"
    /\ ch_value.type \in {"bool", "u8", "i8", "String"}
    /\ ch_out' = CryptoHash_macro(ch_value, rmp_unit)
    /\ ch_pc' = "hashed"
    /\ UNCHANGED <<ch_value, rmp_unit, ch_empty>>
    /\ UNCHANGED nonChVars

\* ().hash()
ChHashUnit ==
    /\ ch_pc = "start"
    /\ ch_value.type = "()"
    /\ ch_out' = CryptoHash_unit(ch_value, rmp_unit)
    /\ ch_pc' = "hashed"
    /\ UNCHANGED <<ch_value, rmp_unit, ch_empty>>
    /\ UNCHANGED nonChVars

\* Zero.hash()
ChHashZero ==
    /\ ch_pc = "start"
    /\ ch_value.type = "Zero"
    /\ ch_out' = CryptoHash_Zero(ch_value)
    /\ ch_pc' = "hashed"
    /\ UNCHANGED <<ch_value, rmp_unit, ch_empty>>
    /\ UNCHANGED nonChVars

\* vec.hash()
ChHashVec ==
    /\ ch_pc = "start"
    /\ ch_value.type = "Vec<u8>"
    /\ ch_out' = CryptoHash_Vec(ch_value)
    /\ ch_pc' = "hashed"
    /\ UNCHANGED <<ch_value, rmp_unit, ch_empty>>
    /\ UNCHANGED nonChVars

\* empty_hash(&hash)
ChEmptyHash ==
    /\ ch_pc = "hashed"
    /\ ch_empty' = empty_hash(ch_out)
    /\ ch_pc' = "tested"
    /\ UNCHANGED <<ch_value, rmp_unit, ch_out>>
    /\ UNCHANGED nonChVars

NextCh == ChHashMacro \/ ChHashUnit \/ ChHashZero \/ ChHashVec \/ ChEmptyHash

SpecCh == InitCh /\ [][NextCh]_vars

(***************************************************************************)
(* Properties of CryptoHash.                                               *)
(***************************************************************************)
\* the Zero half of C20: Zero hashes to 32 zero bytes, empty_hash is true
\* for them, and they are not the hash of the empty byte sequence
ZeroHashesToEmptyHash ==
    /\ (ch_value.type = "Zero" /\ ch_pc # "start")
       => /\ ch_out = [n \in 1..32 |-> Byte(0)]
          /\ ch_out # hash(<<>>).val
    /\ (ch_value.type = "Zero" /\ ch_pc = "tested") => ch_empty

\* C20 as stated: Zero hashes to EMPTY_HASH, which is not the hash of the
\* empty byte sequence, and every other implementation returns the hash of
\* the msgpack encoding of the value.
C20_ZeroOrHashOfEncoding ==
    /\ ZeroHashesToEmptyHash
    /\ (ch_value.type # "Zero" /\ ch_pc # "start")
       => ch_out = hash(Bytes(Serialize(ch_value, rmp_unit))).val

\* C20: Zero hashes to EMPTY_HASH, which is not the hash of the empty byte
\* sequence; Vec<u8> hashes to the hash of its bytes as they are, so the
\* empty vector hashes to the hash of the empty byte sequence; every other
\* implementation returns the hash of the msgpack encoding of the value;
\* and empty_hash is true for the hash of Zero only.
C20_ZeroVecOrHashOfEncoding ==
    /\ ZeroHashesToEmptyHash
    /\ (ch_value.type = "Vec<u8>" /\ ch_pc # "start")
       => /\ ch_out = hash(Bytes(ch_value.val)).val
          /\ ch_value.val = <<>> => ch_out = Bytes(KECCAK_EMPTY)
    /\ (ch_value.type \notin {"Zero", "Vec<u8>"} /\ ch_pc # "start")
       => ch_out = hash(Bytes(Serialize(ch_value, rmp_unit))).val
    /\ (ch_value.type # "Zero" /\ ch_pc = "tested") => ~ch_empty

C20_Witness ==
    /\ ch_value.type = "Zero" /\ ch_pc = "tested"
    /\ ch_out = EMPTY_HASH /\ ch_empty

(***************************************************************************)
(* ethkey::Secret as the owner of its buffer.  A Secret holds one          *)
(* Memzero<H256>; the heap is the sequence of the buffers allocated so     *)
(* far, and a Secret is the address of its buffer together with the scalar *)
(* it was given and whether it has been dropped.                           *)
(***************************************************************************)
\* Secrets created in one run
MaxOwners == 3

\* Memzero::from: a buffer of its own holding the bytes
Memzero_from(heap, bytes) == [heap |-> Append(heap, bytes), buf |-> Len(heap) + 1]

\* <Memzero<T> as Clone>::clone: a buffer of its own holding a copy
Memzero_clone(heap, buf) == Memzero_from(heap, heap[buf])

\* <Memzero<T> as Drop>::drop: the buffer is overwritten with zeros
Memzero_drop(heap, buf) == [heap EXCEPT ![buf] = Zeros(32)]

Owner(buf, scalar, origin) ==
    [buf |-> buf, scalar |-> scalar, origin |-> origin, live |-> TRUE]

\* <Secret as From<[u8; 32]>>::from: Secret { inner: Memzero::from(H256::from(k)) }
Secret_new(heap, k) ==
    LET inner == Memzero_from(heap, Secret_from_array(k))
    IN  [heap |-> inner.heap, owner |-> Owner(inner.buf, k, "from")]

\* a clone that shares the buffer of the Secret it was cloned from
Secret_clone_Shared(heap, o) ==
    [heap |-> heap, owner |-> Owner(o.buf, o.scalar, "clone")]

\* #[derive(Clone)] for Secret: the clone of the field inner
Secret_clone(heap, o) ==
    LET inner == Memzero_clone(heap, o.buf)
    IN  [heap |-> inner.heap, owner |-> Owner(inner.buf, o.scalar, "clone")]

\* drop of a Secret: the drop of its field inner
Secret_drop(heap, o) == Memzero_drop(heap, o.buf)

\* <Secret as Deref>::deref: the H256 in the buffer
Secret_deref(heap, o) == heap[o.buf]

\* scalars given to Secret::from
MzScalars == { BE32(1), BE32(2), BE32(GroupN) }

InitMz ==
    /\ mz_heap = <<>>
    /\ mz_owners = <<>>
    /\ MerkleIdle
    /\ SigIdle
    /\ EcIdle
    /\ TxIdle
    /\ KyIdle
    /\ ChIdle
    /\ HsIdle
    /\ SkIdle
    /\ MdIdle

\* Secret::from(k)
MzNew ==
    /\ Len(mz_owners) < MaxOwners
    /\ \E k \in MzScalars :
          LET made == Secret_new(mz_heap, k)
          IN  /\ mz_heap' = made.heap
              /\ mz_owners' = Append(mz_owners, made.owner)
    /\ UNCHANGED nonMzVars

\* secret.clone()
MzClone ==
    /\ Len(mz_owners) < MaxOwners
    /\ \E n \in 1..Len(mz_owners) :
          /\ mz_owners[n].live
          /\ LET made == Secret_clone(mz_heap, mz_owners[n])
             IN  /\ mz_heap' = made.heap
                 /\ mz_owners' = Append(mz_owners, made.owner)
    /\ UNCHANGED nonMzVars

\* a Secret goes out of scope
MzDrop ==
    /\ \E n \in 1..Len(mz_owners) :
          /\ mz_owners[n].live
          /\ mz_heap' = Secret_drop(mz_heap, mz_owners[n])
          /\ mz_owners' = [mz_owners EXCEPT ![n].live = FALSE]
    /\ UNCHANGED nonMzVars

NextMz == MzNew \/ MzClone \/ MzDrop

SpecMz == InitMz /\ [][NextMz]_vars

to_sha3(bytes) == << [kind |-> "sha3", val |-> 0, of |-> bytes] >>

\* SHA3-256 of the empty input
SHA3_EMPTY ==
    << 167, 255, 198, 248, 191, 30, 215, 102, 81, 193, 71, 86, 160, 97, 214, 98,
       245, 128, 255, 77, 228, 59, 73, 250, 130, 216, 10, 75, 128, 248, 67, 74 >>

\* the 32 bytes of a SHA3-256 digest (result().to_vec())
Sha3_bytes(digest) ==
    IF digest[1].of = <<>> THEN Bytes(SHA3_EMPTY)
    ELSE [n \in 1..32 |-> [kind |-> "sha3", val |-> n, of |-> digest[1].of]]

\* HashStream::new: a Sha3_256 that has absorbed nothing
HashStream_new == <<>>

\* HashStream::update with the chunk replacing what was absorbed
HashStream_update_Replace(self, chunk) == chunk

\* HashStream::update: the chunk is absorbed after what was absorbed before
HashStream_update(self, chunk) == self \o chunk

\* HashStream::hash: Hash::new of the digest of all that was absorbed
HashStream_hash(self) ==
    LET dig == Sha3_bytes(to_sha3(self))
    IN  Hash_new(dig)

(***************************************************************************)
(* common::MerkleTree: the builder of merkle_tree/mod.rs with to_sha3 in   *)
(* the place of to_keccak.                                                 *)
(***************************************************************************)
\* common::MerkleNode::new
common_MerkleNode_new(bytes) == [MerkleNode_default EXCEPT !.data = to_sha3(bytes)]

\* common::MerkleNode::new_merkle_node
common_new_merkle_node(left, right) ==
    LET hash_data == left.data \o right.data
    IN  [MerkleNode_default EXCEPT !.data = to_sha3(hash_data)]

\* common::MerkleTree::new_merkle_tree, lines 80-85 as a whole
common_PairLevel(ns) ==
    [k \in 1..(Len(ns) \div 2) |-> common_new_merkle_node(ns[2 * k - 1], ns[2 * k])]

RECURSIVE common_LevelLoop(_)
\* common::MerkleTree::new_merkle_tree, lines 77-90 as a whole
common_LevelLoop(ns) ==
    LET nl == common_PairLevel(ns)
    IN  IF Len(nl) = 1 THEN nl ELSE common_LevelLoop(nl)

\* common::MerkleTree::new_merkle_tree as a function of a non-empty argument
common_new_merkle_tree(d) ==
    LET padded == IF Len(d) % 2 # 0 THEN Append(d, d[Len(d)]) ELSE d
        ns == [k \in 1..Len(padded) |-> common_MerkleNode_new(padded[k])]
    IN  [root |-> Some(common_LevelLoop(ns)[1])]

(***************************************************************************)
(* A caller that feeds two chunks to two streams, in either order, and     *)
(* builds both Merkle trees over the two chunks.                           *)
(***************************************************************************)
\* chunks of up to MaxChunk bytes
MaxChunk == 2

Chunks == UNION { [1..n -> {Byte(1), Byte(2)}] : n \in 0..MaxChunk }

InitHs ==
    /\ hs_pc = "start"
    /\ hs_chunks \in Chunks \X Chunks
    /\ hs_streams = <<>>
    /\ hs_out = <<>>
    /\ hs_roots = <<>>
    /\ MerkleIdle
    /\ SigIdle
    /\ EcIdle
    /\ TxIdle
    /\ KyIdle
    /\ ChIdle
    /\ MzIdle
    /\ SkIdle
    /\ MdIdle

\* HashStream::new(), twice
HsNew ==
    /\ hs_pc = "start"
    /\ hs_streams' = << HashStream_new, HashStream_new >>
    /\ hs_pc' = "new"
    /\ UNCHANGED <<hs_chunks, hs_out, hs_roots>>
    /\ UNCHANGED nonHsVars

\* .update(a) on the first stream and .update(b) on the second, then
\* .update(b) on the first and .update(a) on the second
HsUpdate ==
    /\ hs_pc \in {"new", "fed once"}
    /\ LET first == IF hs_pc = "new" THEN 1 ELSE 2
           second == IF hs_pc = "new" THEN 2 ELSE 1
       IN  hs_streams' = << HashStream_update(hs_streams[1], hs_chunks[first]),
                            HashStream_update(hs_streams[2], hs_chunks[second]) >>
    /\ hs_pc' = IF hs_pc = "new" THEN "fed once" ELSE "fed twice"
    /\ UNCHANGED <<hs_chunks, hs_out, hs_roots>>
    /\ UNCHANGED nonHsVars

\* .hash() on both streams
HsHash ==
    /\ hs_pc = "fed twice"
    /\ hs_out' = << HashStream_hash(hs_streams[1]).val, HashStream_hash(hs_streams[2]).val >>
    /\ hs_pc' = "hashed"
    /\ UNCHANGED <<hs_chunks, hs_streams, hs_roots>>
    /\ UNCHANGED nonHsVars

\* merkle_tree::MerkleTree::new_merkle_tree(vec![a, b]) and
\* common::MerkleTree::new_merkle_tree(vec![a, b])
HsMerkleTrees ==
    /\ hs_pc = "start"
    /\ hs_roots' = << new_merkle_tree(hs_chunks).root[1].data,
                      common_new_merkle_tree(hs_chunks).root[1].data >>
    /\ hs_pc' = "roots"
    /\ UNCHANGED <<hs_chunks, hs_streams, hs_out>>
    /\ UNCHANGED nonHsVars

NextHs == HsNew \/ HsUpdate \/ HsHash \/ HsMerkleTrees

SpecHs == InitHs /\ [][NextHs]_vars

(***************************************************************************)
(* Properties of HashStream and of the hash functions.                     *)
(***************************************************************************)
\* C21 as stated: for chunks a # b, the stream fed a then b and the stream
\* fed b then a return different hashes.
C21_OrderSensitive ==
    (hs_pc = "hashed" /\ hs_chunks[1] # hs_chunks[2]) => hs_out[1] # hs_out[2]

\* C21: the stream fed a then b and the stream fed b then a return the same
\* hash exactly when a followed by b is the same bytes as b followed by a,
\* which is so for a = b, when a or b is empty, and when both repeat one
\* block; for all other chunks the hashes differ.
C21_OrderSensitiveUnlessCommuting ==
    hs_pc = "hashed"
    => LET a == hs_chunks[1]
           b == hs_chunks[2]
       IN  /\ (hs_out[1] = hs_out[2]) <=> (a \o b = b \o a)
           /\ (a # <<>> /\ b # <<>> /\ a[1] # b[1]) => hs_out[1] # hs_out[2]
           /\ (a = <<>> \/ b = <<>> \/ a = b) => hs_out[1] = hs_out[2]

C21_Witness ==
    /\ hs_pc = "hashed"
    /\ hs_chunks = << << Byte(1) >>, << Byte(1), Byte(1) >> >>
    /\ hs_out[1] = hs_out[2]

\* C30: the stream over any split of d returns crypto::hash(d), and the two
\* Merkle builders return the same root for the same leaves.
C30_OneHashFunction ==
    /\ hs_pc = "hashed" => hs_out[1] = hash(hs_chunks[1] \o hs_chunks[2]).val
    /\ hs_pc = "roots" => hs_roots[1] = hs_roots[2]

(***************************************************************************)
(* The shape of the tree new_merkle_tree returns.                          *)
(***************************************************************************)
RECURSIVE LinksHold(_)
\* a node without children, or a node that stores both children, has the
\* hash of their data as its data, and whose children are such nodes
LinksHold(n) ==
    \/ n.left = None /\ n.right = None
    \/ /\ n.left # None
       /\ n.right # None
       /\ n.data = to_keccak(n.left[1].data \o n.right[1].data)
       /\ LinksHold(n.left[1])
       /\ LinksHold(n.right[1])

RECURSIVE Frontier(_)
\* the data of the childless nodes below n, left to right
Frontier(n) ==
    IF n.left = None \/ n.right = None THEN << n.data >>
    ELSE Frontier(n.left[1]) \o Frontier(n.right[1])

\* C24: the root returned for two or more leaves stores a left and a right
\* child, every node with children has data H(left.data || right.data), and
\* the childless nodes below the root are, left to right, the hashes of the
\* leaves in input order (followed by the padding).
C24_RootStoresBinaryTree ==
    (mk_pc = "done" /\ Len(leaves) >= 2) =>
        /\ root[1].left # None
        /\ root[1].right # None
        /\ LinksHold(root[1])
        /\ Len(Frontier(root[1])) >= Len(leaves)
        /\ \A k \in 1..Len(leaves) : Frontier(root[1])[k] = to_keccak(leaves[k])

(***************************************************************************)
(* The layout the Signature accessors read.                                *)
(***************************************************************************)
\* C23: on every 65-byte signature r() returns bytes 0..32, s() returns
\* exactly bytes 32..64 and v() returns byte 64, and none of them panics:
\* each slice range lies within the 65 bytes.
C23_AccessorsFollowLayout ==
    /\ sg_op = "r" => (sg_pc = "done" /\ sg_part = SubSeq(sg_data, 1, 32))
    /\ sg_op = "s" => (sg_pc = "done" /\ sg_part = SubSeq(sg_data, 33, 64))
    /\ sg_op = "v" => (sg_pc = "done" /\ sg_part = << sg_data[65] >>)

(***************************************************************************)
(* Operations that end the process.                                        *)
(***************************************************************************)
\* C22: no core operation ends the process: the signature accessors and
\* is_low_s / is_valid, sign, recover, verify_public, crypto::sign::sign and
\* crypto::sign::verify, the key constructors, the text parsers and the
\* Merkle builder on a non-empty list return a value or a typed error; no
\* panic and no abort is reachable.
C22_NoOperationEndsTheProcess ==
    /\ ec_pc \notin {"panic", "unwrap panic"}
    /\ sg_pc # "panic"
    /\ tx_pc \notin {"panic", "abort"}
    /\ ky_pc # "panic"
    /\ (leaves # <<>> => mk_pc # "panic")

(***************************************************************************)
(* storage::keys.  An integer of n bytes is held as its n bytes in two's   *)
(* complement, least significant byte first, so that 64-bit values need no *)
(* number beyond a byte; a buffer is the sequence of its bytes.            *)
(***************************************************************************)
RECURSIVE CarryInto(_, _, _)
\* the carry of a + b into byte k
CarryInto(a, b, k) ==
    IF k = 1 THEN 0 ELSE (a[k - 1] + b[k - 1] + CarryInto(a, b, k - 1)) \div 256

\* $itype::wrapping_add: the sum modulo 2^w
wrapping_add(a, b) ==
    [k \in 1..Len(a) |-> (a[k] + b[k] + CarryInto(a, b, k)) % 256]

RECURSIVE BorrowInto(_, _, _)
\* the borrow of a - b from byte k
BorrowInto(a, b, k) ==
    IF k = 1 THEN 0
    ELSE IF a[k - 1] - b[k - 1] - BorrowInto(a, b, k - 1) < 0 THEN 1 ELSE 0

\* $utype::wrapping_sub: the difference modulo 2^w
wrapping_sub(a, b) ==
    [k \in 1..Len(a) |-> (a[k] - b[k] - BorrowInto(a, b, k) + 256) % 256]

\* $itype::min_value() for n bytes: only the sign bit set
min_value(n) == [k \in 1..n |-> IF k = n THEN 128 ELSE 0]

\* BigEndian::write_uN: the most significant byte first
BigEndian_write(v) == [k \in 1..Len(v) |-> v[Len(v) + 1 - k]]

\* BigEndian::read_uN
BigEndian_read(buffer) == [k \in 1..Len(buffer) |-> buffer[Len(buffer) + 1 - k]]

\* <$itype as StorageKey>::size, and size of i8
StorageKey_int_size(t) ==
    CASE t = "i8" -> 1 [] t = "i16" -> 2 [] t = "i32" -> 4 [] t = "i64" -> 8

\* <$itype as StorageKey>::write without the added constant
StorageKey_int_write_NoOffset(x) == BigEndian_write(x)

\* <$itype as StorageKey>::write, and write of i8:
\* self.wrapping_add(min_value()) as $utype, big-endian
StorageKey_int_write(x) == BigEndian_write(wrapping_add(x, min_value(Len(x))))

\* <$itype as StorageKey>::read, and read of i8:
\* read_uN(buffer).wrapping_sub(min_value() as $utype) as $itype
StorageKey_int_read(buffer) ==
    wrapping_sub(BigEndian_read(buffer), min_value(Len(buffer)))

\* Hash::zero and Default for Hash
Hash_zero == Zeros(HASH_SIZE)

\* Hash::from_slice: the length is asserted and no Hash is made
Hash_from_slice(bs) ==
    IF Len(bs) # HASH_SIZE THEN Panicked(None) ELSE Val(None)

\* storage_key_for_crypto_option_types! {Hash, HASH_SIZE}: write
StorageKey_Hash_write(h) == h

\* storage_key_for_crypto_option_types! {Hash, HASH_SIZE}: read
StorageKey_Hash_read(buffer) ==
    LET out == Hash_from_slice(buffer)
    IN  IF out.panic THEN Panicked(Hash_zero)
        ELSE IF out.val # None THEN Val(out.val[1])
        ELSE Val(Hash_zero)

\* storage_key_for_crypto_types! {Signature, SIGNATURE_SIZE}: write
StorageKey_Signature_write(sig) == sig

\* storage_key_for_crypto_types! {Signature, SIGNATURE_SIZE}: read
StorageKey_Signature_read(buffer) == from_slice(buffer, FALSE)

\* StorageKey::write for the type t
StorageKey_write(t, x) ==
    CASE t = "Hash" -> StorageKey_Hash_write(x)
      [] t = "Signature" -> StorageKey_Signature_write(x)
      [] OTHER -> StorageKey_int_write(x)

\* StorageKey::read for the type t
StorageKey_read(t, buffer) ==
    CASE t = "Hash" -> StorageKey_Hash_read(buffer)
      [] t = "Signature" -> StorageKey_Signature_read(buffer)
      [] OTHER -> Val(StorageKey_int_read(buffer))

(***************************************************************************)
(* A caller that writes two keys of one type and reads the first back.     *)
(***************************************************************************)
IntTypes == {"i8", "i16", "i32", "i64"}

\* the values of n bytes around MIN, -1, 0 and MAX, with the lower bytes
\* all zero, all ones, and one in the lowest or in the highest of them
TopBytes == {128, 129, 254, 255, 0, 1, 126, 127}
LowBytes(n) ==
    { [k \in 1..n |-> 0], [k \in 1..n |-> 255],
      [k \in 1..n |-> IF k = 1 THEN 1 ELSE 0],
      [k \in 1..n |-> IF k = n THEN 1 ELSE 0],
      [k \in 1..n |-> IF k = 1 THEN 255 ELSE 0] }
IntValues(t) ==
    IF t = "i8" THEN { << b >> : b \in 0..255 }
    ELSE { low \o << top >> : low \in LowBytes(StorageKey_int_size(t) - 1), top \in TopBytes }

\* hashes: the zero hash and others
KeyHashes == { Zeros(HASH_SIZE), BE32(1), [k \in 1..32 |-> k], [k \in 1..32 |-> 255] }

\* signatures with recovery id 0 or 1, in Electrum notation, and others
KeySignatures ==
    { [k \in 1..65 |-> IF k = 65 THEN v ELSE IF k \in {32, 64} THEN rs ELSE 0] :
        v \in {0, 1, 2, 26, 27, 28, 255}, rs \in {0, 1, 7} }

InitSk ==
    /\ sk_pc = "start"
    /\ sk_type \in IntTypes \cup {"Hash", "Signature"}
    /\ sk_x \in CASE sk_type = "Hash" -> KeyHashes
                  [] sk_type = "Signature" -> KeySignatures
                  [] OTHER -> IntValues(sk_type)
    /\ sk_y \in CASE sk_type = "Hash" -> KeyHashes
                  [] sk_type = "Signature" -> KeySignatures
                  [] OTHER -> IntValues(sk_type)
    /\ sk_buf = <<>>
    /\ sk_read = <<>>
    /\ MerkleIdle
    /\ SigIdle
    /\ EcIdle
    /\ TxIdle
    /\ KyIdle
    /\ ChIdle
    /\ MzIdle
    /\ HsIdle
    /\ MdIdle

\* key.write(&mut buffer) on a buffer of key.size() bytes, for both keys
SkWrite ==
    /\ sk_pc = "start"
    /\ sk_buf' = << StorageKey_write(sk_type, sk_x), StorageKey_write(sk_type, sk_y) >>
    /\ sk_pc' = "written"
    /\ UNCHANGED <<sk_type, sk_x, sk_y, sk_read>>
    /\ UNCHANGED nonSkVars

\* T::read(&buffer) on the buffer of the first key
SkRead ==
    /\ sk_pc = "written"
    /\ LET out == StorageKey_read(sk_type, sk_buf[1])
       IN  /\ sk_read' = IF out.panic THEN sk_read ELSE out.val
           /\ sk_pc' = IF out.panic THEN "panic" ELSE "read"
    /\ UNCHANGED <<sk_type, sk_x, sk_y, sk_buf>>
    /\ UNCHANGED nonSkVars

NextSk == SkWrite \/ SkRead

SpecSk == InitSk /\ [][NextSk]_vars

(***************************************************************************)
(* Properties of the StorageKey encodings.                                 *)
(***************************************************************************)
\* the number a two's complement value of one or two bytes stands for
IntOf(v) ==
    LET u == IF Len(v) = 1 THEN v[1] ELSE v[1] + 256 * v[2]
        half == IF Len(v) = 1 THEN 128 ELSE 32768
    IN  IF u >= half THEN u - 2 * half ELSE u

\* the number a big-endian buffer of one or two bytes stands for
UnsignedOf(buffer) ==
    IF Len(buffer) = 1 THEN buffer[1] ELSE 256 * buffer[1] + buffer[2]

\* the top byte as a signed number
SignedTop(v) == IF v[Len(v)] >= 128 THEN v[Len(v)] - 256 ELSE v[Len(v)]

\* x < y as signed numbers: by the signed top byte, then by the lower
\* bytes from the most significant down
SignedLess(x, y) ==
    \/ SignedTop(x) < SignedTop(y)
    \/ /\ SignedTop(x) = SignedTop(y)
       /\ \E k \in 1..(Len(x) - 1) :
             /\ x[k] < y[k]
             /\ \A n \in (k + 1)..(Len(x) - 1) : x[n] = y[n]

\* x - MIN = x + 2^(w-1) as an unsigned number, big-endian: the signed top
\* byte plus 128, then the lower bytes
MinusMin(x) ==
    [k \in 1..Len(x) |-> IF k = 1 THEN SignedTop(x) + 128 ELSE x[Len(x) + 1 - k]]

\* C25: for i8, i16, i32 and i64, write stores the big-endian unsigned
\* value x - MIN; x < y implies that the bytes of x are lexicographically
\* below the bytes of y; and read(write(x)) = x, MIN, -1, 0 and MAX included.
C25_SignedKeysKeepOrder ==
    sk_type \in IntTypes =>
        /\ sk_pc \in {"written", "read"} =>
              /\ Len(sk_buf[1]) = StorageKey_int_size(sk_type)
              /\ sk_buf[1] = MinusMin(sk_x)
              /\ Len(sk_x) <= 2 =>
                    /\ UnsignedOf(sk_buf[1]) = IntOf(sk_x) - IntOf(min_value(Len(sk_x)))
                    /\ SignedLess(sk_x, sk_y) <=> IntOf(sk_x) < IntOf(sk_y)
              /\ SignedLess(sk_x, sk_y) => LexLess(sk_buf[1], sk_buf[2])
              /\ LexLess(sk_buf[1], sk_buf[2]) => SignedLess(sk_x, sk_y)
        /\ sk_pc \notin {"start", "written"} => (sk_pc = "read" /\ sk_read = sk_x)

C25_Witness ==
    /\ sk_type = "i64"
    /\ sk_pc = "read"
    /\ sk_x = min_value(8)
    /\ sk_y = [k \in 1..8 |-> 255]
    /\ sk_buf = << Zeros(8), [k \in 1..8 |-> IF k = 1 THEN 127 ELSE 255] >>
    /\ sk_read = sk_x

\* C26: a Hash written as a key and read back is the same Hash: read gives
\* the 32 bytes written, not the zero hash.
C26_HashKeyRoundTrip ==
    (sk_type = "Hash" /\ sk_pc \notin {"start", "written"}) =>
        (sk_pc = "read" /\ sk_read = sk_x)

\* C27: a Signature with recovery id 0 or 1 written as a key and read back
\* is the same 65 bytes: read subtracts nothing from the recovery id and
\* does not fall back to the default signature.
C27_SignatureKeyRoundTrip ==
    (sk_type = "Signature" /\ sk_x[65] \in {0, 1} /\ sk_pc \notin {"start", "written"}) =>
        (sk_pc = "read" /\ sk_read = sk_x)

(***************************************************************************)
(* storage::indexes_metadata.  The metadata table is a map from keys to    *)
(* the bytes of the stored values; <<>> stands for no entry.               *)
(***************************************************************************)
INDEXES_METADATA_TABLE_NAME == "__INDEXES_METADATA__"

CORE_STORAGE_METADATA_KEY == "__STORAGE_METADATA__"

\* CORE_STORAGE_METADATA: StorageMetadata { version: 0 }
CORE_STORAGE_METADATA == [version |-> 0]

\* BaseIndex::get: the stored bytes, None where nothing is stored
BaseIndex_get(table, key) == IF table[key] = <<>> THEN None ELSE Some(table[key])

\* BaseIndex::put
BaseIndex_put(table, key, bytes) == [table EXCEPT ![key] = bytes]

\* struct IndexMetadata { is_family }: the index type is no field of it
IndexMetadata_new(index_type, is_family) == [is_family |-> is_family]

\* <IndexMetadata as StorageValue>::into_bytes: MessagePack, the struct as
\* an array of its one field
IndexMetadata_into_bytes(value) == << 145, IF value.is_family THEN 195 ELSE 194 >>

\* <IndexMetadata as StorageValue>::from_bytes
IndexMetadata_from_bytes(bytes) ==
    IF Len(bytes) = 2 /\ bytes[1] = 145 /\ bytes[2] \in {194, 195}
    THEN Val([is_family |-> bytes[2] = 195])
    ELSE Panicked([is_family |-> FALSE])

RECURSIVE Decimal(_)
\* the decimal digits of a number, as serde_json and Display write it
Decimal(n) == IF n < 10 THEN << 48 + n >> ELSE Decimal(n \div 10) \o << 48 + (n % 10) >>

RECURSIVE ParseDecimal(_)
ParseDecimal(digits) ==
    IF digits = <<>> THEN 0
    ELSE 10 * ParseDecimal(SubSeq(digits, 1, Len(digits) - 1)) + (digits[Len(digits)] - 48)

\* {"version":
JsonHead == << 123, 34, 118, 101, 114, 115, 105, 111, 110, 34, 58 >>

\* StorageMetadata::try_serialize: serde_json::to_vec
try_serialize(meta) == JsonHead \o Decimal(meta.version) \o << 125 >>

\* StorageMetadata::try_deserialize: serde_json::from_slice on compact JSON
try_deserialize(serialized) ==
    LET n == Len(serialized)
        digits == SubSeq(serialized, Len(JsonHead) + 1, n - 1)
    IN  IF /\ n >= Len(JsonHead) + 2
           /\ SubSeq(serialized, 1, Len(JsonHead)) = JsonHead
           /\ serialized[n] = 125
           /\ \A k \in 1..Len(digits) : digits[k] \in 48..57
           /\ (Len(digits) > 1 => digits[1] # 48)
        THEN [ok |-> TRUE, meta |-> [version |-> ParseDecimal(digits)]]
        ELSE [ok |-> FALSE, meta |-> [version |-> 0]]

\* <StorageMetadata as StorageValue>::into_bytes
StorageMetadata_into_bytes(meta) == try_serialize(meta)

\* <StorageMetadata as StorageValue>::from_bytes: unwrap of try_deserialize
StorageMetadata_from_bytes(v) ==
    LET res == try_deserialize(v)
    IN  IF res.ok THEN Val(res.meta) ELSE Panicked(res.meta)

\* StorageMetadata::current
StorageMetadata_current == CORE_STORAGE_METADATA

\* StorageMetadata::write_current: the table after the call
write_current(table) ==
    BaseIndex_put(table, CORE_STORAGE_METADATA_KEY,
                  StorageMetadata_into_bytes(StorageMetadata_current))

MdOk(meta) == [tag |-> "Ok", meta |-> meta, message |-> <<>>]
MdErr(text, stored) ==
    [tag |-> "Err", meta |-> <<>>,
     message |-> << [text |-> text, stored |-> stored,
                     current |-> Decimal(StorageMetadata_current.version)] >>]

\* StorageMetadata::read with the version test left out
StorageMetadata_read_AnyVersion(table) ==
    LET got == BaseIndex_get(table, CORE_STORAGE_METADATA_KEY)
    IN  IF got = None
        THEN Val(MdErr("Storage version is not specified. Current storage version: [{}].", <<>>))
        ELSE LET ver == StorageMetadata_from_bytes(got[1])
             IN  IF ver.panic THEN Panicked(<<>>)
                 ELSE Val(MdOk(ver.val))

\* StorageMetadata::read
StorageMetadata_read(table) ==
    LET got == BaseIndex_get(table, CORE_STORAGE_METADATA_KEY)
    IN  IF got = None
        THEN Val(MdErr("Storage version is not specified. Current storage version: [{}].", <<>>))
        ELSE LET ver == StorageMetadata_from_bytes(got[1])
             IN  IF ver.panic THEN Panicked(<<>>)
                 ELSE IF ver.val = CORE_STORAGE_METADATA THEN Val(MdOk(ver.val))
                 ELSE Val(MdErr("Unsupported storage version: [{}]. Current storage version: [{}].",
                                Decimal(ver.val.version)))

\* set_index_type: the table after the call, or the panic
set_index_type(name, index_type, is_family, table) ==
    IF name = INDEXES_METADATA_TABLE_NAME \/ name = CORE_STORAGE_METADATA_KEY
    THEN Panicked(table)
    ELSE LET got == BaseIndex_get(table, name)
         IN  IF got # None
             THEN IF IndexMetadata_from_bytes(got[1]).panic THEN Panicked(table)
                  ELSE Val(table)
             ELSE Val(BaseIndex_put(table, name,
                        IndexMetadata_into_bytes(IndexMetadata_new(index_type, is_family))))

(***************************************************************************)
(* A caller of set_index_type, write_current and read on one fork.         *)
(***************************************************************************)
IndexNames == {"a", "b"}
ReservedNames == {INDEXES_METADATA_TABLE_NAME, CORE_STORAGE_METADATA_KEY}
IndexTypes == {"Entry", "List", "ProofMap"}

\* what a database may hold under the storage metadata key: nothing, the
\* version of this or of another build, or bytes that are no metadata
StoredVersions ==
    { <<>>, << 123, 125 >> } \cup { try_serialize([version |-> v]) : v \in {0, 1, 10} }

MdCall(op, name, index_type, is_family) ==
    [op |-> op, name |-> name, index_type |-> index_type, is_family |-> is_family,
     before |-> md_table]

InitMd ==
    /\ md_pc = "ready"
    /\ \E stored \in StoredVersions :
          md_table = [key \in IndexNames \cup ReservedNames |->
                         IF key = CORE_STORAGE_METADATA_KEY THEN stored ELSE <<>>]
    /\ md_first = [n \in IndexNames |-> None]
    /\ md_last = MdCall("none", "", "", FALSE)
    /\ md_out = <<>>
    /\ MerkleIdle
    /\ SigIdle
    /\ EcIdle
    /\ TxIdle
    /\ KyIdle
    /\ ChIdle
    /\ MzIdle
    /\ HsIdle
    /\ SkIdle

\* set_index_type(name, index_type, is_family, &mut fork)
MdSetIndexType ==
    /\ md_pc = "ready"
    /\ \E name \in IndexNames \cup ReservedNames, index_type \in IndexTypes,
          is_family \in BOOLEAN :
          /\ md_last' = MdCall("set_index_type", name, index_type, is_family)
          /\ LET out == set_index_type(name, index_type, is_family, md_table)
             IN  /\ md_table' = out.val
                 /\ md_pc' = IF out.panic THEN "panic" ELSE "ready"
          /\ md_first' =
                IF name \in IndexNames /\ md_first[name] = None
                THEN [md_first EXCEPT ![name] =
                         Some([index_type |-> index_type, is_family |-> is_family])]
                ELSE md_first
    /\ UNCHANGED md_out
    /\ UNCHANGED nonMdVars

\* StorageMetadata::write_current(&mut fork)
MdWriteCurrent ==
    /\ md_pc = "ready"
    /\ md_last' = MdCall("write_current", "", "", FALSE)
    /\ md_table' = write_current(md_table)
    /\ UNCHANGED <<md_pc, md_first, md_out>>
    /\ UNCHANGED nonMdVars

\* StorageMetadata::read(&fork)
MdRead ==
    /\ md_pc = "ready"
    /\ md_last' = MdCall("read", "", "", FALSE)
    /\ LET out == StorageMetadata_read(md_table)
       IN  /\ md_out' = IF out.panic THEN <<>> ELSE << out.val >>
           /\ md_pc' = IF out.panic THEN "panic" ELSE "ready"
    /\ UNCHANGED <<md_table, md_first>>
    /\ UNCHANGED nonMdVars

NextMd == MdSetIndexType \/ MdWriteCurrent \/ MdRead

SpecMd == InitMd /\ [][NextMd]_vars

(***************************************************************************)
(* Properties of the metadata.                                             *)
(***************************************************************************)
\* C28: for every index name, what is stored is the (index_type,
\* is_family) of the first set_index_type call made for it, whatever later
\* calls asked for; a call naming __INDEXES_METADATA__ or
\* __STORAGE_METADATA__ panics and leaves the table as it was.
C28_IndexMetadataWriteOnce ==
    /\ \A n \in IndexNames :
          md_first[n] # None =>
              /\ md_table[n] # <<>>
              /\ ~IndexMetadata_from_bytes(md_table[n]).panic
              /\ IndexMetadata_from_bytes(md_table[n]).val.is_family = md_first[n][1].is_family
              /\ IndexMetadata_from_bytes(md_table[n]).val
                    = [index_type |-> md_first[n][1].index_type,
                       is_family |-> md_first[n][1].is_family]
    /\ (md_last.op = "set_index_type" /\ md_last.name \in ReservedNames) =>
          (md_pc = "panic" /\ md_table = md_last.before)

\* the storage metadata the table holds, if it holds one
StoredMetadata == try_deserialize(md_table[CORE_STORAGE_METADATA_KEY])

\* C29: read returns Ok(v) only when the stored version v is the current
\* one; for a stored version that differs it returns the error
\* "Unsupported storage version" naming both versions, and when nothing is
\* stored the error "Storage version is not specified"; read leaves the
\* table as it was; and a read right after write_current returns
\* Ok(current).
C29_ReadChecksVersion ==
    /\ md_last.op = "write_current" =>
          /\ md_table = write_current(md_last.before)
          /\ StorageMetadata_read(md_table) = Val(MdOk(StorageMetadata_current))
    /\ (md_last.op = "read" /\ md_pc = "ready") =>
        /\ md_table = md_last.before
        /\ Len(md_out) = 1
        /\ md_out[1].tag = "Ok" =>
              /\ StoredMetadata.ok
              /\ StoredMetadata.meta = StorageMetadata_current
              /\ md_out[1].meta = StoredMetadata.meta
        /\ md_table[CORE_STORAGE_METADATA_KEY] = <<>> =>
              md_out[1] = MdErr("Storage version is not specified. Current storage version: [{}].", <<>>)
        /\ (StoredMetadata.ok /\ StoredMetadata.meta # StorageMetadata_current) =>
              md_out[1] = MdErr("Unsupported storage version: [{}]. Current storage version: [{}].",
                                Decimal(StoredMetadata.meta.version))
        /\ md_last.before[CORE_STORAGE_METADATA_KEY] = write_current(md_last.before)[CORE_STORAGE_METADATA_KEY] =>
              md_out[1] = MdOk(StorageMetadata_current)

C29_Witness ==
    /\ md_last.op = "read"
    /\ md_pc = "ready"
    /\ md_last.before[CORE_STORAGE_METADATA_KEY] = try_serialize([version |-> 10])
    /\ md_out = << MdErr("Unsupported storage version: [{}]. Current storage version: [{}].",
                         << 49, 48 >>) >>

====
